---- MODULE Spec2Model ----
(***************************************************************************)
(* Model of the bitstream / parameter-set parsing engine of webcodecs-py:  *)
(* BitstreamReader and remove_emulation_prevention_bytes                   *)
(* (bitstream_reader.h), find_annexb_nal_units (nal_utils.h) and the AVC   *)
(* and HEVC parameter-set decoders and aggregators (avc_parser.cpp,        *)
(* hevc_parser.cpp), and of the codec string parsers (codec_parser.cpp);   *)
(* and of the threads of a codec object: the caller and the worker of a    *)
(* VideoDecoder (video_decoder.cpp) and of an AudioEncoder                 *)
(* (audio_encoder.cpp, audio_encoder_opus.cpp).                            *)
(*                                                                         *)
(* Numbers.  TLC's integers are 32-bit signed, so a C++ uint32_t is kept   *)
(* as a pair <<hi, lo>> of 16-bit halves (value = hi * 65536 + lo) and all *)
(* uint32_t arithmetic is done on the halves, modulo 2^32.  int32_t values *)
(* are TLC integers.  Buffers are sequences of bytes 0..255; C++ index i   *)
(* is TLA+ index i + 1.  A std::string is a sequence of one-character      *)
(* strings.                                                                *)
(***************************************************************************)
EXTENDS Integers, Sequences, FiniteSets, TLC

VARIABLES
    data,           \* the input buffer of the running call (never written)
    byte_position,  \* BitstreamReader::byte_position_
    bit_position,   \* BitstreamReader::bit_position_
    ret,            \* what the last BitstreamReader call returned or threw
    pc,             \* position of the running parser call
    nal_units,      \* spans returned by find_annexb_nal_units
    idx,            \* loop index of the running aggregator
    offset,         \* byte cursor of a description (avcC / hvcC) parser
    locals,         \* the other locals of a description parser's loops
    info,           \* the aggregate result under construction
    out,            \* result of remove_emulation_prevention_bytes
    self,           \* the members of a codec object (VideoDecoder, ...)
    threads,        \* position and locals of each thread that runs its code
    events,         \* what the callbacks were called with since the last reset
    readers         \* two BitstreamReader instances and their buffers

vars == <<data, byte_position, bit_position, ret, pc, nal_units, idx, offset,
          locals, info, out, self, threads, events, readers>>

-----------------------------------------------------------------------------
(* Bounds of the model *)

\* longest exhaustively enumerated BitstreamReader buffer, in bytes
MaxReaderLen == 2
\* Exp-Golomb values 0..UeSmallMax are each given a buffer of their own
UeSmallMax == 16
\* widths tried by read_bits / skip_bits go up to MaxBitsPerRead + ExtraWidth
ExtraWidth == 1

(* Program constants *)

\* read_bits: "if (n > 32) throw"
MaxBitsPerRead == 32
\* read_ue: "if (leading_zeros > 31) throw"
MaxLeadingZeros == 31

-----------------------------------------------------------------------------
(* uint32_t as 16-bit halves *)

Half == 2 ^ 16

U32Of(n) == <<n \div Half, n % Half>>

U32Zero == <<0, 0>>

\* a + b modulo 2^32
U32Add(a, b) ==
    LET lo == a[2] + b[2]
        hi == a[1] + b[1] + (lo \div Half)
    IN  <<hi % Half, lo % Half>>

\* (a << 1) | bit, modulo 2^32
U32Shl1Or(a, bit) ==
    <<(a[1] * 2 + (a[2] \div 32768)) % Half, ((a[2] * 2) % Half) + bit>>

\* a >> 1
U32Shr1(a) == <<a[1] \div 2, (a[1] % 2) * 32768 + (a[2] \div 2)>>

\* static_cast<int32_t>(a): two's complement reinterpretation
U32ToInt32(a) ==
    IF a[1] >= 32768 THEN (a[1] - Half) * Half + a[2] ELSE a[1] * Half + a[2]

INT32_MIN == -2147483647 - 1
INT32_MAX == (2 ^ 30 - 1) + 2 ^ 30

\* the int expression 1 << n for n in 0..31 (1 << 31 is INT32_MIN)
Int32Shl1(n) == IF n = 31 THEN INT32_MIN ELSE 2 ^ n

\* the int expression x - 1; INT32_MIN - 1 overflows and wraps to INT32_MAX
\* on every two's-complement target the library is built for
Int32Dec(x) == IF x = INT32_MIN THEN INT32_MAX ELSE x - 1

\* the int expression -x; -INT32_MIN overflows and wraps to INT32_MIN
Int32Neg(x) == IF x = INT32_MIN THEN INT32_MIN ELSE -x

\* conversion of a non-negative int to uint32_t
Int32ToU32(x) == IF x >= 0 THEN U32Of(x) ELSE U32Of((x + INT32_MAX) + 1)

-----------------------------------------------------------------------------
(* BitstreamReader (bitstream_reader.h).  A cursor is a record              *)
(* [byte_position, bit_position]; every operation returns                  *)
(* [st, val, sval, r]: st is "ok" or the exception thrown, val the         *)
(* uint32_t result, sval the int32_t result, r the cursor afterwards.      *)

Cursor(bp, bit) == [byte_position |-> bp, bit_position |-> bit]

Ok(v, r) == [st |-> "ok", val |-> v, sval |-> 0, r |-> r]
OkS(s, r) == [st |-> "ok", val |-> U32Zero, sval |-> s, r |-> r]
Throw(e, r) == [st |-> e, val |-> U32Zero, sval |-> 0, r |-> r]

\* read_bit without its end-of-buffer test: returns a zero bit and advances
read_bit_zero_fill(d, r) ==
    LET bit == IF r.byte_position >= Len(d) THEN 0
               ELSE (d[r.byte_position + 1] \div (2 ^ (7 - r.bit_position))) % 2
        nb  == r.bit_position + 1
    IN  IF nb = 8
        THEN Ok(U32Of(bit), Cursor(r.byte_position + 1, 0))
        ELSE Ok(U32Of(bit), Cursor(r.byte_position, nb))

\* uint32_t read_bit()
read_bit(d, r) ==
    IF r.byte_position >= Len(d)
    THEN Throw("OutOfData", r)
    ELSE LET bit == (d[r.byte_position + 1] \div (2 ^ (7 - r.bit_position))) % 2
             nb  == r.bit_position + 1
         IN  IF nb = 8
             THEN Ok(U32Of(bit), Cursor(r.byte_position + 1, 0))
             ELSE Ok(U32Of(bit), Cursor(r.byte_position, nb))

\* result = (result << 1) | read_bit();  with b the outcome of read_bit()
read_bits_step(result, b) ==
    IF b.st # "ok"
    THEN b
    ELSE Ok(U32Shl1Or(result, b.val[2]), b.r)

RECURSIVE read_bits_iterations(_, _, _, _)
\* the iterations i = lo .. hi - 1 of the loop of read_bits, in order, from
\* the outcome s of the iterations before them (s.val is result); an
\* exception thrown by read_bit ends the loop
read_bits_iterations(d, s, lo, hi) ==
    IF s.st # "ok" \/ lo >= hi THEN s
    ELSE IF hi - lo = 1 THEN read_bits_step(s.val, read_bit(d, s.r))
    ELSE read_bits_iterations(d,
             read_bits_iterations(d, s, lo, lo + ((hi - lo) \div 2)),
             lo + ((hi - lo) \div 2), hi)

\* for (size_t i = 0; i < n; ++i) of read_bits
read_bits_loop(d, r, n, i, result) ==
    read_bits_iterations(d, Ok(result, r), i, n)

\* read_bits with the width test off by one (n >= 32 rejected)
read_bits_width_off_by_one(d, r, n) ==
    IF n >= MaxBitsPerRead
    THEN Throw("InvalidWidth", r)
    ELSE read_bits_loop(d, r, n, 0, U32Zero)

\* uint32_t read_bits(size_t n)
read_bits(d, r, n) ==
    IF n > MaxBitsPerRead
    THEN Throw("InvalidWidth", r)
    ELSE read_bits_loop(d, r, n, 0, U32Zero)

\* read_bit(); of skip_bits, with b its outcome: the bit is dropped
skip_bits_step(b) ==
    IF b.st # "ok" THEN b ELSE Ok(U32Zero, b.r)

RECURSIVE skip_bits_iterations(_, _, _, _)
\* the iterations i = lo .. hi - 1 of the loop of skip_bits, in order, from
\* the outcome s of the iterations before them
skip_bits_iterations(d, s, lo, hi) ==
    IF s.st # "ok" \/ lo >= hi THEN s
    ELSE IF hi - lo = 1 THEN skip_bits_step(read_bit(d, s.r))
    ELSE skip_bits_iterations(d,
             skip_bits_iterations(d, s, lo, lo + ((hi - lo) \div 2)),
             lo + ((hi - lo) \div 2), hi)

\* void skip_bits(size_t n)
skip_bits(d, r, n) == skip_bits_iterations(d, Ok(U32Zero, r), 0, n)

\* the while loop of read_ue still running, leading_zeros bits read so far
Looping(leading_zeros, r) ==
    [st |-> "loop", val |-> U32Of(leading_zeros), sval |-> 0, r |-> r]

\* while (read_bit() == 0) { leading_zeros++; if (leading_zeros > 31) throw }
\* with b the outcome of read_bit(): the loop ends at a one bit (st = "ok")
read_ue_zeros_step(leading_zeros, b) ==
    IF b.st # "ok" THEN b
    ELSE IF b.val[2] # 0 THEN Ok(U32Of(leading_zeros), b.r)
    ELSE IF leading_zeros + 1 > MaxLeadingZeros THEN Throw("CodeTooLong", b.r)
    ELSE Looping(leading_zeros + 1, b.r)

RECURSIVE read_ue_zeros_iterations(_, _, _, _)
\* the iterations lo .. hi - 1 of the while loop of read_ue, in order, from
\* the outcome s of the iterations before them
read_ue_zeros_iterations(d, s, lo, hi) ==
    IF s.st # "loop" \/ lo >= hi THEN s
    ELSE IF hi - lo = 1 THEN read_ue_zeros_step(s.val[2], read_bit(d, s.r))
    ELSE read_ue_zeros_iterations(d,
             read_ue_zeros_iterations(d, s, lo, lo + ((hi - lo) \div 2)),
             lo + ((hi - lo) \div 2), hi)

\* the while loop of read_ue: val[2] of the result is leading_zeros; the
\* loop leaves by return or throw within MaxLeadingZeros + 1 iterations
read_ue_zeros(d, r, leading_zeros) ==
    read_ue_zeros_iterations(d, Looping(leading_zeros, r),
                             leading_zeros, MaxLeadingZeros + 1)

\* the return expression of read_ue without its "- 1"
read_ue_value_no_decrement(leading_zeros, value) ==
    U32Add(Int32ToU32(Int32Shl1(leading_zeros)), value)

\* the return expression of read_ue: (1 << leading_zeros) - 1 + value,
\* the shift and the decrement in int, the sum in uint32_t
read_ue_value(leading_zeros, value) ==
    U32Add(Int32ToU32(Int32Dec(Int32Shl1(leading_zeros))), value)

\* return (1 << leading_zeros) - 1 + value;  with v the outcome of
\* read_bits(leading_zeros)
read_ue_return(leading_zeros, v) ==
    IF v.st # "ok" THEN v
    ELSE Ok(read_ue_value(leading_zeros, v.val), v.r)

\* read_ue after its while loop, z being the outcome of the loop
read_ue_suffix(d, z) ==
    IF z.st # "ok" THEN z
    ELSE IF z.val[2] = 0 THEN Ok(U32Zero, z.r)
    ELSE read_ue_return(z.val[2], read_bits(d, z.r, z.val[2]))

\* uint32_t read_ue()
read_ue(d, r) == read_ue_suffix(d, read_ue_zeros(d, r, 0))

\* the mapping of read_se with the odd branch rounding down
read_se_value_round_down(ue_value) ==
    IF ue_value[2] % 2 = 1
    THEN U32ToInt32(U32Shr1(ue_value))
    ELSE Int32Neg(U32ToInt32(U32Shr1(ue_value)))

\* the mapping of read_se from the unsigned code to the signed value
read_se_value(ue_value) ==
    IF ue_value[2] % 2 = 1
    THEN U32ToInt32(U32Shr1(U32Add(ue_value, U32Of(1))))
    ELSE Int32Neg(U32ToInt32(U32Shr1(ue_value)))

\* the mapping of read_se applied to u, the outcome of read_ue()
read_se_return(u) ==
    IF u.st # "ok" THEN u ELSE OkS(read_se_value(u.val), u.r)

\* int32_t read_se()
read_se(d, r) == read_se_return(read_ue(d, r))

\* void align_to_byte()
align_to_byte(r) ==
    IF r.bit_position # 0 THEN Cursor(r.byte_position + 1, 0) ELSE r

\* size_t remaining_bits() const, where it does not wrap below zero
remaining_bits(d, r) == (Len(d) - r.byte_position) * 8 - r.bit_position

\* bool has_more_data() const
has_more_data(d, r) == remaining_bits(d, r) # 0

-----------------------------------------------------------------------------
(* Input buffers of the BitstreamReader specification *)

RECURSIVE SeqsUpTo(_, _)
\* all sequences over S of length at most n
SeqsUpTo(S, n) ==
    IF n = 0 THEN {<<>>}
    ELSE LET T == SeqsUpTo(S, n - 1)
         IN  T \cup {Append(t, x) : t \in {u \in T : Len(u) = n - 1}, x \in S}

ReaderBytes == {0, 90, 255}

\* bit j (0 the least significant) of a uint32_t
U32Bit(a, j) ==
    IF j < 16 THEN (a[2] \div (2 ^ j)) % 2 ELSE (a[1] \div (2 ^ (j - 16))) % 2

\* number of significant bits of a uint32_t (0 for zero)
BitLen(a) ==
    IF a = U32Zero THEN 0
    ELSE 1 + CHOOSE j \in 0..31 :
                 U32Bit(a, j) = 1 /\ \A k \in (j + 1)..31 : U32Bit(a, k) = 0

\* the n low bits of a, most significant first
LowBits(a, n) == [i \in 1..n |-> U32Bit(a, n - i)]

Zeros(n) == [i \in 1..n |-> 0]

\* the standard Exp-Golomb code of v: k zeros, then the k+1 bits of v+1
UeCodeBits(v) ==
    LET w == U32Add(v, U32Of(1))
        k == BitLen(w) - 1
    IN  Zeros(k) \o LowBits(w, k + 1)

\* bits packed into bytes, most significant bit first, zero padded
BitsToBytes(bits) ==
    LET n == (Len(bits) + 7) \div 8
        Bit(i) == IF i <= Len(bits) THEN bits[i] ELSE 0
    IN  [b \in 1..n |->
            Bit(8*b-7) * 128 + Bit(8*b-6) * 64 + Bit(8*b-5) * 32 + Bit(8*b-4) * 16
          + Bit(8*b-3) * 8 + Bit(8*b-2) * 4 + Bit(8*b-1) * 2 + Bit(8*b)]

\* the Exp-Golomb values whose codes are read: the small ones, the
\* representative ones of the spec, and the ends of the k = 30 and k = 31 ranges
UeValues ==
    {U32Of(n) : n \in 0..UeSmallMax}
    \cup {U32Of(255), U32Of(1048576), <<32767, 65534>>, <<32767, 65535>>,
          <<65535, 65533>>, <<65535, 65534>>}

ReaderInputs ==
    SeqsUpTo(ReaderBytes, MaxReaderLen)
    \cup {BitsToBytes(UeCodeBits(v)) : v \in UeValues}
    \cup {<<165, 0, 255, 60, 129>>, <<0, 0, 0, 0, 128>>, <<0, 0, 0, 0, 0>>}

-----------------------------------------------------------------------------
(* The BitstreamReader as a state machine: one action per public method *)

NoRet == [op |-> "none", n |-> 0, st |-> "none", val |-> U32Zero, sval |-> 0,
          pre |-> Cursor(0, 0)]

cur == Cursor(byte_position, bit_position)

\* everything but the reader's own state
others == <<nal_units, idx, offset, locals, info, out>>

\* num: bound of the loop over idx (num_sps, num_pps, num_arrays);
\* nal_type, num_nalus, j: the array being read by parse_hevc_description
NoLocals == [num |-> 0, nal_type |-> 0, num_nalus |-> 0, j |-> 0]

\* the codec objects and the concurrent readers
objects == <<self, threads, events, readers>>

\* no codec object is constructed and no concurrent reader exists
ObjectsIdle ==
    /\ self = <<>>
    /\ threads = <<>>
    /\ events = <<>>
    /\ readers = <<>>

OthersIdle ==
    /\ nal_units = <<>>
    /\ idx = 0
    /\ offset = 0
    /\ locals = NoLocals
    /\ info = <<>>
    /\ out = <<>>
    /\ ObjectsIdle

\* a call made by the owner of the reader: the cursor moves as the method
\* moves it and ret holds what the method returned or threw
Return(op, n, res) ==
    /\ pc = "ready"
    /\ pc' = "returned"
    /\ byte_position' = res.r.byte_position
    /\ bit_position' = res.r.bit_position
    /\ ret' = [op |-> op, n |-> n, st |-> res.st, val |-> res.val,
               sval |-> res.sval, pre |-> cur]
    /\ UNCHANGED <<data, others, objects>>

do_read_bit == Return("read_bit", 1, read_bit(data, cur))

do_read_bits ==
    \E n \in 0..(MaxBitsPerRead + ExtraWidth) :
        Return("read_bits", n, read_bits(data, cur, n))

do_skip_bits ==
    \E n \in 0..(MaxBitsPerRead + ExtraWidth) :
        Return("skip_bits", n, skip_bits(data, cur, n))

do_read_ue == Return("read_ue", 0, read_ue(data, cur))

do_read_se == Return("read_se", 0, read_se(data, cur))

do_align_to_byte == Return("align_to_byte", 0, Ok(U32Zero, align_to_byte(cur)))

\* the caller has taken the result (or caught the exception); the reader
\* keeps only its cursor, from which the next call starts
caller_continues ==
    /\ pc = "returned"
    /\ pc' = "ready"
    /\ ret' = NoRet
    /\ UNCHANGED <<data, byte_position, bit_position, others>>
    /\ UNCHANGED objects

ReaderInit ==
    /\ data \in ReaderInputs
    /\ byte_position = 0
    /\ bit_position = 0
    /\ ret = NoRet
    /\ pc = "ready"
    /\ OthersIdle

ReaderNext ==
    \/ do_read_bit
    \/ do_read_bits
    \/ do_skip_bits
    \/ do_read_ue
    \/ do_read_se
    \/ do_align_to_byte
    \/ caller_continues

SpecReader == ReaderInit /\ [][ReaderNext]_vars

-----------------------------------------------------------------------------
(* Reference notions for the BitstreamReader properties, stated on absolute *)
(* bit positions and independently of the reader's loops                    *)

\* absolute bit position of a cursor
Pos(r) == 8 * r.byte_position + r.bit_position

NumBits(d) == 8 * Len(d)

\* bit i (0-based, most significant bit of byte 0 first) of the buffer
BitAt(d, i) == (d[(i \div 8) + 1] \div (2 ^ (7 - (i % 8)))) % 2

RECURSIVE BitsValue(_, _, _)
\* the integer spelled by the n <= 16 bits from bit p, most significant first
BitsValue(d, p, n) ==
    IF n = 0 THEN 0
    ELSE IF n = 1 THEN BitAt(d, p)
    ELSE BitsValue(d, p, n \div 2) * (2 ^ (n - (n \div 2)))
         + BitsValue(d, p + (n \div 2), n - (n \div 2))

\* the uint32_t spelled by the n <= 32 bits from bit p, most significant first
BigEndianValue(d, p, n) ==
    IF n <= 16 THEN <<0, BitsValue(d, p, n)>>
    ELSE <<BitsValue(d, p, n - 16), BitsValue(d, p + n - 16, 16)>>

Min(a, b) == IF a < b THEN a ELSE b

\* the bit sequence code lies in the buffer from bit p on
CodeAt(d, p, code) ==
    /\ p + Len(code) <= NumBits(d)
    /\ \A i \in 1..Len(code) : BitAt(d, p + i - 1) = code[i]

\* the signed value of the unsigned Exp-Golomb value v, over the integers:
\* (v+1)/2 for odd v, -(v/2) for even v
SignedOf(v) ==
    LET half == v[1] * 32768 + (v[2] \div 2)
    IN  IF v[2] % 2 = 1 THEN half + 1 ELSE 0 - half

returned(op) == pc = "returned" /\ ret.op = op

\* C6: after any sequence of BitstreamReader calls, failed ones included,
\* bit_position is in 0..7, byte_position <= size, bit_position = 0 when
\* byte_position = size, and a read that needs more bits than remain throws
\* OutOfData instead of returning a value.
C6_CursorStaysInBuffer ==
    /\ bit_position \in 0..7
    /\ byte_position <= Len(data)
    /\ (byte_position = Len(data) => bit_position = 0)
    /\ remaining_bits(data, cur) >= 0
    /\ (pc = "returned" /\ ret.op \in {"read_bit", "read_bits", "skip_bits"}
          /\ ret.n <= MaxBitsPerRead /\ ret.n > NumBits(data) - Pos(ret.pre))
       => ret.st = "OutOfData"
    /\ (pc = "returned" /\ ret.op \in {"read_ue", "read_se"})
       => \A v \in UeValues :
            LET code == UeCodeBits(v)
                have == NumBits(data) - Pos(ret.pre)
            IN  (have < Len(code) /\ CodeAt(data, Pos(ret.pre), SubSeq(code, 1, have)))
                => ret.st = "OutOfData"

C6_Witness ==
    /\ returned("read_bits")
    /\ ret.st = "OutOfData"
    /\ ret.pre.bit_position # 0
    /\ NumBits(data) - Pos(ret.pre) > 0
    /\ byte_position = Len(data)

\* C7: read_bits(n), n in 0..32, with at least n bits remaining returns the
\* next n bits most significant first and advances by exactly n bits;
\* skip_bits(n) leaves the cursor where n read_bit calls leave it;
\* read_bits(n) with n > 32 throws InvalidWidth and does not move.
C7_ReadBitsBigEndian ==
    /\ (returned("read_bits") /\ ret.n <= MaxBitsPerRead
          /\ ret.n <= NumBits(data) - Pos(ret.pre))
       => /\ ret.st = "ok"
          /\ ret.val = BigEndianValue(data, Pos(ret.pre), ret.n)
          /\ Pos(cur) = Pos(ret.pre) + ret.n
    /\ (returned("read_bits") /\ ret.n > MaxBitsPerRead)
       => ret.st = "InvalidWidth" /\ cur = ret.pre
    /\ returned("skip_bits")
       => /\ Pos(cur) = Min(Pos(ret.pre) + ret.n, NumBits(data))
          /\ (ret.st = "ok") = (ret.n <= NumBits(data) - Pos(ret.pre))

C7_Witness ==
    /\ returned("read_bits")
    /\ ret.n = MaxBitsPerRead
    /\ ret.st = "ok"
    /\ ret.pre.bit_position # 0
    /\ ret.val[1] >= 32768
    /\ ret.val[2] % 2 = 0

\* C8: read_ue over the standard code of v (k zeros, a one, the k low bits of
\* v+1), k <= 31, returns v and consumes exactly 2k+1 bits; a leading-zero
\* run of 32 or more throws CodeTooLong.
C8_ExpGolombRoundTrip ==
    returned("read_ue")
    => /\ \A v \in UeValues :
            CodeAt(data, Pos(ret.pre), UeCodeBits(v))
            => /\ ret.st = "ok"
               /\ ret.val = v
               /\ Pos(cur) = Pos(ret.pre) + Len(UeCodeBits(v))
       /\ CodeAt(data, Pos(ret.pre), Zeros(MaxLeadingZeros + 1))
            => ret.st = "CodeTooLong"

C8_Witness ==
    /\ returned("read_ue")
    /\ ret.st = "ok"
    /\ ret.val = <<65535, 65534>>
    /\ Pos(cur) - Pos(ret.pre) = 2 * MaxLeadingZeros + 1

\* C9: read_se returns (v+1)/2 for an odd code value v and -(v/2) for an even
\* one (0->0, 1->1, 2->-1, 3->2, 4->-2), without int32 overflow, and two
\* different code values never give the same result.
C9_SignedMapping ==
    /\ returned("read_se")
       => \A v \in UeValues :
            CodeAt(data, Pos(ret.pre), UeCodeBits(v))
            => /\ ret.st = "ok"
               /\ ret.sval = SignedOf(v)
               /\ \A w \in UeValues \ {v} : read_se_value(w) # ret.sval
    /\ returned("read_se")
       => \A n \in 0..4 :
            CodeAt(data, Pos(ret.pre), UeCodeBits(U32Of(n)))
            => ret.sval = <<0, 1, -1, 2, -2>>[n + 1]

C9_Witness ==
    /\ returned("read_se")
    /\ ret.st = "ok"
    /\ ret.sval = -2147483647
    /\ ret.pre.bit_position = 0

-----------------------------------------------------------------------------
(* remove_emulation_prevention_bytes (bitstream_reader.h) *)

\* data[i] of the C++ code (0-based)
At(d, i) == d[i + 1]

\* the test of the loop body: i + 2 < size and data[i..i+2] = 00 00 03
IsEmulationRun(d, i) ==
    /\ i + 2 < Len(d)
    /\ At(d, i) = 0
    /\ At(d, i + 1) = 0
    /\ At(d, i + 2) = 3

RECURSIVE rbsp_loop_skip_three(_, _, _)
\* the loop with "i += 3" in place of "i += 2" after a run
rbsp_loop_skip_three(d, i, result) ==
    IF ~(i < Len(d)) THEN result
    ELSE IF IsEmulationRun(d, i)
         THEN rbsp_loop_skip_three(d, i + 4, result \o <<At(d, i), At(d, i + 1)>>)
         ELSE rbsp_loop_skip_three(d, i + 1, Append(result, At(d, i)))

\* one iteration of the loop at index s.i: a 00 00 03 run gives its two zero
\* bytes and i += 2 before the ++i, any other byte is copied
rbsp_step(d, s) ==
    IF IsEmulationRun(d, s.i)
    THEN [i |-> s.i + 2 + 1, result |-> s.result \o <<At(d, s.i), At(d, s.i + 1)>>]
    ELSE [i |-> s.i + 1, result |-> Append(s.result, At(d, s.i))]

RECURSIVE rbsp_iterations(_, _, _, _)
\* the iterations lo .. hi - 1 of the loop, in order, from the state s left
\* by the iterations before them; the loop ends when i reaches size
rbsp_iterations(d, s, lo, hi) ==
    IF ~(s.i < Len(d)) \/ lo >= hi THEN s
    ELSE IF hi - lo = 1 THEN rbsp_step(d, s)
    ELSE rbsp_iterations(d,
             rbsp_iterations(d, s, lo, lo + ((hi - lo) \div 2)),
             lo + ((hi - lo) \div 2), hi)

\* for (size_t i = 0; i < size; ++i) { ... }: at most size iterations
rbsp_loop(d, i, result) ==
    rbsp_iterations(d, [i |-> i, result |-> result], 0, Len(d)).result

remove_emulation_prevention_bytes(d) == rbsp_loop(d, 0, <<>>)

-----------------------------------------------------------------------------
(* find_annexb_nal_units (nal_utils.h).  A span is [offset, length]. *)

Span(o, l) == [offset |-> o, length |-> l]

RECURSIVE find_start(_, _)
\* the inner while loop: looks for 00 00 01 or 00 00 00 01 from i on
find_start(d, i) ==
    IF ~(i + 2 < Len(d))
    THEN [found |-> FALSE, start |-> 0, i |-> i]
    ELSE IF At(d, i) = 0 /\ At(d, i + 1) = 0 /\ At(d, i + 2) = 1
         THEN [found |-> TRUE, start |-> i + 3, i |-> i + 3]
    ELSE IF /\ At(d, i) = 0 /\ At(d, i + 1) = 0
            /\ i + 3 < Len(d) /\ At(d, i + 2) = 0 /\ At(d, i + 3) = 1
         THEN [found |-> TRUE, start |-> i + 4, i |-> i + 4]
    ELSE find_start(d, i + 1)

RECURSIVE find_end_four_byte_only(_, _)
\* the for loop ending a unit only at a 4-byte start code
find_end_four_byte_only(d, j) ==
    IF ~(j + 2 < Len(d)) THEN Len(d)
    ELSE IF /\ At(d, j) = 0 /\ At(d, j + 1) = 0
            /\ j + 3 < Len(d) /\ At(d, j + 2) = 0 /\ At(d, j + 3) = 1
         THEN j
    ELSE find_end_four_byte_only(d, j + 1)

\* the test of the for loop: a 3-byte or a 4-byte start code at j
find_end_test(d, j) ==
    /\ At(d, j) = 0 /\ At(d, j + 1) = 0
    /\ \/ At(d, j + 2) = 1
       \/ (j + 3 < Len(d) /\ At(d, j + 2) = 0 /\ At(d, j + 3) = 1)

RECURSIVE find_end_iterations(_, _, _, _)
\* the iterations j = lo .. hi - 1 of the for loop, in order, from the state
\* s left by the iterations before them: { end = j; break; } at a start code
find_end_iterations(d, s, lo, hi) ==
    IF s.found \/ lo >= hi THEN s
    ELSE IF hi - lo = 1
    THEN IF find_end_test(d, lo) THEN [found |-> TRUE, end |-> lo] ELSE s
    ELSE find_end_iterations(d,
             find_end_iterations(d, s, lo, lo + ((hi - lo) \div 2)),
             lo + ((hi - lo) \div 2), hi)

\* size_t end = size; for (size_t j = start; j + 2 < size; ++j) { ... }:
\* the next start code at or after j, or the buffer end
find_end(d, j) ==
    find_end_iterations(d, [found |-> FALSE, end |-> Len(d)], j, Len(d) - 2).end

RECURSIVE scan_loop_keep_empty(_, _, _)
\* the outer loop without its "if (start < end)" test
scan_loop_keep_empty(d, i, units) ==
    IF ~(i < Len(d)) THEN units
    ELSE LET s == find_start(d, i)
         IN  IF ~s.found THEN units
             ELSE LET end == find_end(d, s.start)
                  IN  scan_loop_keep_empty(d, end,
                          Append(units, Span(s.start, end - s.start)))

RECURSIVE scan_loop(_, _, _)
\* while (i < size) { ... }
scan_loop(d, i, units) ==
    IF ~(i < Len(d)) THEN units
    ELSE LET s == find_start(d, i)
         IN  IF ~s.found THEN units
             ELSE LET end == find_end(d, s.start)
                  IN  scan_loop(d, end,
                          IF s.start < end
                          THEN Append(units, Span(s.start, end - s.start))
                          ELSE units)

\* the minimum size: a start code and one byte
MinAnnexBSize == 4

find_annexb_nal_units(d) ==
    IF Len(d) < MinAnnexBSize THEN <<>> ELSE scan_loop(d, 0, <<>>)

-----------------------------------------------------------------------------
(* More uint32_t / int arithmetic used by the parameter-set decoders *)

\* a * m modulo 2^32, for a small multiplier m (m <= 16)
U32MulSmall(a, m) ==
    LET lo == a[2] * m
        hi == a[1] * m + (lo \div Half)
    IN  <<hi % Half, lo % Half>>

\* a - b modulo 2^32
U32Sub(a, b) ==
    U32Add(a, U32Add(<<(Half - 1) - b[1], (Half - 1) - b[2]>>, U32Of(1)))

\* static_cast<uint8_t>(a)
U8(a) == a[2] % 256

\* the int expression a + b with two's-complement wrap on overflow
Int32Add(a, b) ==
    IF a > 0 /\ b > INT32_MAX - a THEN INT32_MIN + ((a - 1) - (INT32_MAX - b))
    ELSE IF a < 0 /\ b < INT32_MIN - a THEN INT32_MAX - ((INT32_MIN - b) - (a + 1))
    ELSE a + b

\* the int expression a % m of C++ (the sign follows the dividend)
Int32Rem(a, m) ==
    IF a >= 0 THEN a % m
    ELSE IF a = INT32_MIN THEN 0 - (((INT32_MAX % m) + 1) % m)
    ELSE 0 - ((0 - a) % m)

-----------------------------------------------------------------------------
(* Sequencing of reader calls inside a decoder: once a call has thrown, the *)
(* exception propagates and no later call runs.  A decoder threads one      *)
(* record s through its statements: s.p is the state of the reader (the     *)
(* result of its last call), the other fields are the struct under          *)
(* construction and the decoder's locals.                                   *)

ThenBit(d, p) == IF p.st # "ok" THEN p ELSE read_bit(d, p.r)
ThenBits(d, p, n) == IF p.st # "ok" THEN p ELSE read_bits(d, p.r, n)
ThenSkip(d, p, n) == IF p.st # "ok" THEN p ELSE skip_bits(d, p.r, n)
ThenUe(d, p) == IF p.st # "ok" THEN p ELSE read_ue(d, p.r)
ThenSe(d, p) == IF p.st # "ok" THEN p ELSE read_se(d, p.r)


\* reader.skip_bits(n);
Skip(d, s, n) == [s EXCEPT !.p = ThenSkip(d, s.p, n)]
\* reader.read_ue();
SkipUe(d, s) == [s EXCEPT !.p = ThenUe(d, s.p)]
\* reader.read_se();
SkipSe(d, s) == [s EXCEPT !.p = ThenSe(d, s.p)]
\* field = v; after the reader call with outcome q
Assign(s, q, field, v) == [s EXCEPT !.p = q, ![field] = v]
AssignU8(s, q, field) == Assign(s, q, field, U8(q.val))
AssignU8Plus8(s, q, field) == Assign(s, q, field, U8(U32Add(q.val, U32Of(8))))
AssignU32(s, q, field) == Assign(s, q, field, q.val)
AssignBool(s, q, field) == Assign(s, q, field, q.val[2] = 1)
AssignBit(s, q, field) == Assign(s, q, field, q.val[2])

\* uint8_t field = reader.read_bits(n);
BitsToU8(d, s, n, field) == AssignU8(s, ThenBits(d, s.p, n), field)
\* uint32_t field = reader.read_bits(n);
BitsToU32(d, s, n, field) == AssignU32(s, ThenBits(d, s.p, n), field)
\* uint8_t field = reader.read_ue();
UeToU8(d, s, field) == AssignU8(s, ThenUe(d, s.p), field)
\* uint8_t field = reader.read_ue() + 8;
UePlus8ToU8(d, s, field) == AssignU8Plus8(s, ThenUe(d, s.p), field)
\* uint32_t field = reader.read_ue();
UeToU32(d, s, field) == AssignU32(s, ThenUe(d, s.p), field)
\* bool field = reader.read_bit();
BitToBool(d, s, field) == AssignBool(s, ThenBit(d, s.p), field)
\* uint8_t field = reader.read_bit();
BitToU8(d, s, field) == AssignBit(s, ThenBit(d, s.p), field)

\* the result of a decoder: st is "ok" or the exception, v the record
Decoded(v) == [st |-> "ok", v |-> v]
Failed(e) == [st |-> e, v |-> <<>>]

\* std::optional: <<>> is nullopt, <<x>> holds x
None == <<>>
Some(x) == <<x>>

-----------------------------------------------------------------------------
(* AVC (avc_parser.cpp) *)

AVC_IDR_SLICE == 5
AVC_SPS == 7
AVC_PPS == 8

\* AVCNalUnitHeader parse_avc_nal_unit_header(uint8_t first_byte)
parse_avc_nal_unit_header(first_byte) ==
    LET type == first_byte % 32
    IN  [nal_ref_idc   |-> (first_byte \div 32) % 4,
         nal_unit_type |-> type,
         is_idr        |-> type = AVC_IDR_SLICE,
         is_key_frame  |-> type = AVC_IDR_SLICE \/ type = AVC_SPS]

\* the profile test without its last operand
HighProfilesWithout135 == {100, 110, 122, 244, 44, 83, 86, 118, 128, 138, 139, 134}

\* the profile_idc values of the test that guards the High-profile block
HighProfiles == {100, 110, 122, 244, 44, 83, 86, 118, 128, 138, 139, 134, 135}

RECURSIVE avc_scaling_list(_, _, _, _, _, _)
\* last_scale = (next_scale == 0) ? last_scale : next_scale;  and the next j
avc_scaling_list_next(d, q, j, size, last_scale, next_scale) ==
    avc_scaling_list(d, q, j + 1, size,
                     IF next_scale = 0 THEN last_scale ELSE next_scale, next_scale)

\* next_scale = (last_scale + delta_scale + 256) % 256;  with q the outcome
\* of read_se()
avc_scaling_list_delta(d, q, j, size, last_scale) ==
    IF q.st # "ok" THEN q
    ELSE avc_scaling_list_next(d, q, j, size, last_scale,
            Int32Rem(Int32Add(Int32Add(last_scale, q.sval), 256), 256))

\* for (j < size) { if (next_scale != 0) { delta_scale = read_se(); ... } ... }
avc_scaling_list(d, p, j, size, last_scale, next_scale) ==
    IF p.st # "ok" \/ j >= size THEN p
    ELSE IF next_scale # 0
    THEN avc_scaling_list_delta(d, read_se(d, p.r), j, size, last_scale)
    ELSE avc_scaling_list_next(d, p, j, size, last_scale, next_scale)

RECURSIVE avc_scaling_matrix(_, _, _, _)
\* if (seq_scaling_list_present_flag) { the list };  with flag the outcome
\* of read_bit()
avc_scaling_matrix_entry(d, flag, i, count) ==
    IF flag.st # "ok" THEN flag
    ELSE IF flag.val[2] = 1
    THEN avc_scaling_matrix(d,
            avc_scaling_list(d, flag, 0, IF i < 6 THEN 16 ELSE 64, 8, 8),
            i + 1, count)
    ELSE avc_scaling_matrix(d, flag, i + 1, count)

\* for (i < count) { if (read_bit()) scaling list of 16 or 64 }
avc_scaling_matrix(d, p, i, count) ==
    IF p.st # "ok" \/ i >= count THEN p
    ELSE avc_scaling_matrix_entry(d, read_bit(d, p.r), i, count)

\* if (sps.chroma_format_idc == 3) reader.skip_bits(1);
avc_sps_separate_colour_plane(d, s) ==
    IF s.chroma_format_idc = 3 THEN Skip(d, s, 1) ELSE s

\* if (seq_scaling_matrix_present_flag) { the scaling lists }
avc_sps_scaling(d, s) ==
    IF s.seq_scaling_matrix_present_flag
    THEN [s EXCEPT !.p = avc_scaling_matrix(d, s.p, 0,
                             IF s.chroma_format_idc # 3 THEN 8 ELSE 12)]
    ELSE s

RECURSIVE avc_sps_poc_cycle(_, _, _, _)
\* for (uint32_t i = 0; i < num_ref_frames; ++i) read_se();
avc_sps_poc_cycle(d, p, i, num_ref_frames) ==
    IF p.st # "ok" THEN p
    ELSE IF ~(num_ref_frames[1] > 0 \/ i < num_ref_frames[2]) THEN p
    ELSE avc_sps_poc_cycle(d, read_se(d, p.r), i + 1, num_ref_frames)

avc_sps_poc_refs(d, s) ==
    [s EXCEPT !.p = avc_sps_poc_cycle(d, s.p, 0, s.num_ref_frames)]

\* sps.width = ...; sps.height = ...;
avc_sps_resolution(s) ==
    LET cfi          == s.chroma_format_idc
        sub_width_c  == IF cfi = 0 THEN 1 ELSE IF cfi = 3 THEN 1 ELSE 2
        sub_height_c == IF cfi = 0 THEN 1 ELSE IF cfi = 1 THEN 2 ELSE 1
        fields       == IF s.frame_mbs_only_flag THEN 1 ELSE 2
        crop_unit_x  == sub_width_c
        crop_unit_y  == sub_height_c * fields
    IN  [s EXCEPT
          !.width  = U32Sub(
              U32MulSmall(U32Add(s.pic_width_in_mbs_minus1, U32Of(1)), 16),
              U32MulSmall(U32Add(s.frame_crop_left_offset,
                                 s.frame_crop_right_offset), crop_unit_x)),
          !.height = U32Sub(
              U32MulSmall(U32MulSmall(
                  U32Add(s.pic_height_in_map_units_minus1, U32Of(1)), 16), fields),
              U32MulSmall(U32Add(s.frame_crop_top_offset,
                                 s.frame_crop_bottom_offset), crop_unit_y))]

\* the test vui_parameters_present_flag && reader.has_more_data()
avc_sps_vui_test(d, s) ==
    [s EXCEPT !.in_vui = s.vui_parameters_present_flag /\ has_more_data(d, s.p.r)]

\* if (reader.has_more_data() && reader.read_bit()): the bit is read only
\* when data remains
avc_vui_timing_test(d, s) ==
    IF has_more_data(d, s.p.r) THEN BitToBool(d, s, "flag")
    ELSE [s EXCEPT !.flag = FALSE]

\* if (num_units_in_tick > 0) sps.framerate = time_scale / (2.0 * num_units_in_tick);
avc_vui_framerate(s) ==
    IF s.num_units_in_tick # U32Zero
    THEN [s EXCEPT !.framerate = Some([time_scale |-> s.time_scale,
                                       num_units_in_tick |-> s.num_units_in_tick])]
    ELSE s

\* the struct AVCSpsInfo as constructed, and the locals of parse_avc_sps
AVCSpsInfo ==
    [profile_idc |-> 0, level_idc |-> 0, constraint_set_flags |-> 0,
     width |-> U32Zero, height |-> U32Zero,
     bit_depth_luma |-> 8, bit_depth_chroma |-> 8, chroma_format_idc |-> 1,
     framerate |-> None, sps_id |-> 0]

\* flag is the value of the if condition last read with read_bit(), inner
\* that of an if nested in it, in_vui the test that guards the VUI block
AvcSpsLocals ==
    [seq_scaling_matrix_present_flag |-> FALSE,
     pic_order_cnt_type |-> U32Zero, num_ref_frames |-> U32Zero,
     pic_width_in_mbs_minus1 |-> U32Zero,
     pic_height_in_map_units_minus1 |-> U32Zero,
     frame_mbs_only_flag |-> FALSE, frame_cropping_flag |-> FALSE,
     frame_crop_left_offset |-> U32Zero, frame_crop_right_offset |-> U32Zero,
     frame_crop_top_offset |-> U32Zero, frame_crop_bottom_offset |-> U32Zero,
     vui_parameters_present_flag |-> FALSE, in_vui |-> FALSE,
     flag |-> FALSE, inner |-> FALSE, aspect_ratio_idc |-> 0,
     num_units_in_tick |-> U32Zero, time_scale |-> U32Zero]

\* f @@ g for records: the fields of both
Fields(f, g) ==
    [k \in DOMAIN f \cup DOMAIN g |-> IF k \in DOMAIN f THEN f[k] ELSE g[k]]

\* the conditions under which the statements of parse_avc_sps run
AvcInHigh(s) == s.profile_idc \in HighProfiles
AvcPocType0(s) == s.pic_order_cnt_type = U32Zero
AvcPocType1(s) == s.pic_order_cnt_type = U32Of(1)
AvcInVui(s) == s.in_vui

AvcSpsStatements == 49

\* statement k of parse_avc_sps after the skip of the NAL header, in source
\* order, each under the conditions of the blocks that enclose it
avc_sps_statement(k, d, s) ==
    CASE k = 1  -> BitsToU8(d, s, 8, "profile_idc")
      [] k = 2  -> BitsToU8(d, s, 8, "constraint_set_flags")
      [] k = 3  -> BitsToU8(d, s, 8, "level_idc")
      [] k = 4  -> UeToU8(d, s, "sps_id")
      [] k = 5  -> IF AvcInHigh(s) THEN UeToU8(d, s, "chroma_format_idc") ELSE s
      [] k = 6  -> IF AvcInHigh(s) THEN avc_sps_separate_colour_plane(d, s) ELSE s
      [] k = 7  -> IF AvcInHigh(s) THEN UePlus8ToU8(d, s, "bit_depth_luma") ELSE s
      [] k = 8  -> IF AvcInHigh(s) THEN UePlus8ToU8(d, s, "bit_depth_chroma") ELSE s
      [] k = 9  -> IF AvcInHigh(s) THEN Skip(d, s, 1) ELSE s
      [] k = 10 -> IF AvcInHigh(s)
                   THEN BitToBool(d, s, "seq_scaling_matrix_present_flag") ELSE s
      [] k = 11 -> IF AvcInHigh(s) THEN avc_sps_scaling(d, s) ELSE s
      [] k = 12 -> SkipUe(d, s)
      [] k = 13 -> UeToU32(d, s, "pic_order_cnt_type")
      [] k = 14 -> IF AvcPocType0(s) THEN SkipUe(d, s)
                   ELSE IF AvcPocType1(s) THEN Skip(d, s, 1) ELSE s
      [] k = 15 -> IF AvcPocType1(s) THEN SkipSe(d, s) ELSE s
      [] k = 16 -> IF AvcPocType1(s) THEN SkipSe(d, s) ELSE s
      [] k = 17 -> IF AvcPocType1(s) THEN UeToU32(d, s, "num_ref_frames") ELSE s
      [] k = 18 -> IF AvcPocType1(s) THEN avc_sps_poc_refs(d, s) ELSE s
      [] k = 19 -> SkipUe(d, s)
      [] k = 20 -> Skip(d, s, 1)
      [] k = 21 -> UeToU32(d, s, "pic_width_in_mbs_minus1")
      [] k = 22 -> UeToU32(d, s, "pic_height_in_map_units_minus1")
      [] k = 23 -> BitToBool(d, s, "frame_mbs_only_flag")
      [] k = 24 -> IF ~s.frame_mbs_only_flag THEN Skip(d, s, 1) ELSE s
      [] k = 25 -> Skip(d, s, 1)
      [] k = 26 -> BitToBool(d, s, "frame_cropping_flag")
      [] k = 27 -> IF s.frame_cropping_flag
                   THEN UeToU32(d, s, "frame_crop_left_offset") ELSE s
      [] k = 28 -> IF s.frame_cropping_flag
                   THEN UeToU32(d, s, "frame_crop_right_offset") ELSE s
      [] k = 29 -> IF s.frame_cropping_flag
                   THEN UeToU32(d, s, "frame_crop_top_offset") ELSE s
      [] k = 30 -> IF s.frame_cropping_flag
                   THEN UeToU32(d, s, "frame_crop_bottom_offset") ELSE s
      [] k = 31 -> avc_sps_resolution(s)
      [] k = 32 -> BitToBool(d, s, "vui_parameters_present_flag")
      [] k = 33 -> avc_sps_vui_test(d, s)
      [] k = 34 -> IF AvcInVui(s) THEN BitToBool(d, s, "flag") ELSE s
      [] k = 35 -> IF AvcInVui(s) /\ s.flag
                   THEN BitsToU8(d, s, 8, "aspect_ratio_idc") ELSE s
      [] k = 36 -> IF AvcInVui(s) /\ s.flag /\ s.aspect_ratio_idc = 255
                   THEN Skip(d, s, 32) ELSE s
      [] k = 37 -> IF AvcInVui(s) THEN BitToBool(d, s, "flag") ELSE s
      [] k = 38 -> IF AvcInVui(s) /\ s.flag THEN Skip(d, s, 1) ELSE s
      [] k = 39 -> IF AvcInVui(s) THEN BitToBool(d, s, "flag") ELSE s
      [] k = 40 -> IF AvcInVui(s) /\ s.flag THEN Skip(d, s, 4) ELSE s
      [] k = 41 -> IF AvcInVui(s) /\ s.flag THEN BitToBool(d, s, "inner") ELSE s
      [] k = 42 -> IF AvcInVui(s) /\ s.flag /\ s.inner THEN Skip(d, s, 24) ELSE s
      [] k = 43 -> IF AvcInVui(s) THEN BitToBool(d, s, "flag") ELSE s
      [] k = 44 -> IF AvcInVui(s) /\ s.flag THEN SkipUe(d, s) ELSE s
      [] k = 45 -> IF AvcInVui(s) /\ s.flag THEN SkipUe(d, s) ELSE s
      [] k = 46 -> IF AvcInVui(s) THEN avc_vui_timing_test(d, s) ELSE s
      [] k = 47 -> IF AvcInVui(s) /\ s.flag
                   THEN BitsToU32(d, s, 32, "num_units_in_tick") ELSE s
      [] k = 48 -> IF AvcInVui(s) /\ s.flag
                   THEN BitsToU32(d, s, 32, "time_scale") ELSE s
      [] k = 49 -> IF AvcInVui(s) /\ s.flag THEN avc_vui_framerate(s) ELSE s

RECURSIVE avc_sps_run(_, _, _, _)
\* the statements lo .. hi - 1 in order, from the state s left by the
\* statements before them; an exception ends the function
avc_sps_run(d, s, lo, hi) ==
    IF s.p.st # "ok" \/ lo >= hi THEN s
    ELSE IF hi - lo = 1 THEN avc_sps_statement(lo, d, s)
    ELSE avc_sps_run(d, avc_sps_run(d, s, lo, lo + ((hi - lo) \div 2)),
                     lo + ((hi - lo) \div 2), hi)

\* the statements of parse_avc_sps on the RBSP d
avc_sps_statements(d) ==
    avc_sps_run(d, Fields([p |-> skip_bits(d, Cursor(0, 0), 8)],
                          Fields(AVCSpsInfo, AvcSpsLocals)),
                1, AvcSpsStatements + 1)

\* return sps; or the exception leaves the function
avc_sps_result(s) ==
    IF s.p.st # "ok" THEN Failed(s.p.st)
    ELSE Decoded([k \in DOMAIN AVCSpsInfo |-> s[k]])

\* AVCSpsInfo parse_avc_sps(const std::vector<uint8_t>& data)
parse_avc_sps(bytes) ==
    IF bytes = <<>> THEN Failed("InvalidArgument")
    ELSE avc_sps_result(avc_sps_statements(remove_emulation_prevention_bytes(bytes)))

AVCPpsInfo == [pps_id |-> 0, sps_id |-> 0, entropy_coding_mode_flag |-> FALSE]

avc_pps_statements(d) ==
    LET start  == Fields([p |-> skip_bits(d, Cursor(0, 0), 8)], AVCPpsInfo)
        pps_id == UeToU8(d, start, "pps_id")
        sps_id == UeToU8(d, pps_id, "sps_id")
    IN  BitToBool(d, sps_id, "entropy_coding_mode_flag")

avc_pps_result(s) ==
    IF s.p.st # "ok" THEN Failed(s.p.st)
    ELSE Decoded([k \in DOMAIN AVCPpsInfo |-> s[k]])

\* AVCPpsInfo parse_avc_pps(const std::vector<uint8_t>& data)
parse_avc_pps(bytes) ==
    IF bytes = <<>> THEN Failed("InvalidArgument")
    ELSE avc_pps_result(avc_pps_statements(remove_emulation_prevention_bytes(bytes)))

-----------------------------------------------------------------------------
(* HEVC (hevc_parser.cpp) *)

HEVC_BLA_W_LP == 16
HEVC_CRA == 21
HEVC_VPS == 32
HEVC_SPS == 33
HEVC_PPS == 34

\* the header with nuh_layer_id taken from the second byte alone
parse_hevc_nal_unit_header_low_layer(b0, b1) ==
    LET type == (b0 \div 2) % 64
        irap == type >= HEVC_BLA_W_LP /\ type <= HEVC_CRA
    IN  [nal_unit_type         |-> type,
         nuh_layer_id          |-> (b1 \div 8) % 32,
         nuh_temporal_id_plus1 |-> b1 % 8,
         is_irap               |-> irap,
         is_key_frame          |-> irap \/ type = HEVC_VPS \/ type = HEVC_SPS]

\* HEVCNalUnitHeader parse_hevc_nal_unit_header(const uint8_t* data)
parse_hevc_nal_unit_header(b0, b1) ==
    LET type == (b0 \div 2) % 64
        irap == type >= HEVC_BLA_W_LP /\ type <= HEVC_CRA
    IN  [nal_unit_type         |-> type,
         nuh_layer_id          |-> ((b0 % 2) * 32) + ((b1 \div 8) % 32),
         nuh_temporal_id_plus1 |-> b1 % 8,
         is_irap               |-> irap,
         is_key_frame          |-> irap \/ type = HEVC_VPS \/ type = HEVC_SPS]

RECURSIVE hevc_ptl_sub_layer_flags(_, _, _, _)
\* for (i < max_sub_layers_minus1) { skip_bits(1); skip_bits(1); }
hevc_ptl_sub_layer_flags(d, p, i, max_sub_layers_minus1) ==
    IF p.st # "ok" \/ i >= max_sub_layers_minus1 THEN p
    ELSE hevc_ptl_sub_layer_flags(d, ThenSkip(d, skip_bits(d, p.r, 1), 1),
                                  i + 1, max_sub_layers_minus1)

RECURSIVE hevc_ptl_reserved(_, _, _)
\* for (i = max_sub_layers_minus1; i < 8; ++i) skip_bits(2);
hevc_ptl_reserved(d, p, i) ==
    IF p.st # "ok" \/ i >= 8 THEN p
    ELSE hevc_ptl_reserved(d, skip_bits(d, p.r, 2), i + 1)

\* the loop over the presence flags without the loop that follows it
hevc_ptl_sub_layers_flags_only(d, s) ==
    [s EXCEPT !.p = hevc_ptl_sub_layer_flags(d, s.p, 0, s.max_sub_layers_minus1)]

\* the two loops over the sub-layers
hevc_ptl_sub_layers(d, s) ==
    LET flags == hevc_ptl_sub_layer_flags(d, s.p, 0, s.max_sub_layers_minus1)
    IN  [s EXCEPT !.p = IF s.max_sub_layers_minus1 > 0
                        THEN hevc_ptl_reserved(d, flags, s.max_sub_layers_minus1)
                        ELSE flags]

HevcPtlStatements == 7

\* statement k of parse_hevc_profile_tier_level with profile_present_flag set
hevc_ptl_statement(k, d, s) ==
    CASE k = 1 -> Skip(d, s, 2)
      [] k = 2 -> BitToU8(d, s, "general_tier_flag")
      [] k = 3 -> BitsToU8(d, s, 5, "general_profile_idc")
      [] k = 4 -> Skip(d, s, 32)
      [] k = 5 -> Skip(d, s, 48)
      [] k = 6 -> BitsToU8(d, s, 8, "general_level_idc")
      [] k = 7 -> hevc_ptl_sub_layers(d, s)

RECURSIVE hevc_ptl_run(_, _, _, _)
\* the statements lo .. hi - 1 in order; an exception ends the function
hevc_ptl_run(d, s, lo, hi) ==
    IF s.p.st # "ok" \/ lo >= hi THEN s
    ELSE IF hi - lo = 1 THEN hevc_ptl_statement(lo, d, s)
    ELSE hevc_ptl_run(d, hevc_ptl_run(d, s, lo, lo + ((hi - lo) \div 2)),
                      lo + ((hi - lo) \div 2), hi)

\* parse_hevc_profile_tier_level(reader, true, max_sub_layers_minus1, sps)
parse_hevc_profile_tier_level(d, s) ==
    hevc_ptl_run(d, s, 1, HevcPtlStatements + 1)

HEVCVpsInfo == [vps_id |-> 0, max_layers_minus1 |-> 0, max_sub_layers_minus1 |-> 0]

hevc_vps_statements(d) ==
    LET start     == Fields([p |-> skip_bits(d, Cursor(0, 0), 16)], HEVCVpsInfo)
        vps_id    == BitsToU8(d, start, 4, "vps_id")
        internal  == Skip(d, vps_id, 1)
        available == Skip(d, internal, 1)
        layers    == BitsToU8(d, available, 6, "max_layers_minus1")
    IN  BitsToU8(d, layers, 3, "max_sub_layers_minus1")

hevc_vps_result(s) ==
    IF s.p.st # "ok" THEN Failed(s.p.st)
    ELSE Decoded([k \in DOMAIN HEVCVpsInfo |-> s[k]])

\* HEVCVpsInfo parse_hevc_vps(const std::vector<uint8_t>& data)
parse_hevc_vps(bytes) ==
    IF bytes = <<>> THEN Failed("InvalidArgument")
    ELSE hevc_vps_result(hevc_vps_statements(remove_emulation_prevention_bytes(bytes)))

\* the struct HEVCSpsInfo as constructed, and the locals of parse_hevc_sps
HEVCSpsInfo ==
    [general_profile_idc |-> 0, general_level_idc |-> 0, general_tier_flag |-> 0,
     width |-> U32Zero, height |-> U32Zero,
     bit_depth_luma |-> 8, bit_depth_chroma |-> 8, chroma_format_idc |-> 1,
     framerate |-> None, sps_id |-> 0, vps_id |-> 0]

HevcSpsLocals ==
    [max_sub_layers_minus1 |-> 0, conformance_window_flag |-> FALSE,
     conf_win_left_offset |-> U32Zero, conf_win_right_offset |-> U32Zero,
     conf_win_top_offset |-> U32Zero, conf_win_bottom_offset |-> U32Zero]

\* if (sps.chroma_format_idc == 3) reader.skip_bits(1);
hevc_sps_separate_colour_plane(d, s) ==
    IF s.chroma_format_idc = 3 THEN Skip(d, s, 1) ELSE s

\* sps.width -= ...; sps.height -= ...;
hevc_sps_apply_window(s) ==
    LET cfi          == s.chroma_format_idc
        sub_width_c  == IF cfi = 1 \/ cfi = 2 THEN 2 ELSE 1
        sub_height_c == IF cfi = 1 THEN 2 ELSE 1
    IN  [s EXCEPT
          !.width  = U32Sub(@, U32MulSmall(U32Add(s.conf_win_left_offset,
                                                  s.conf_win_right_offset),
                                           sub_width_c)),
          !.height = U32Sub(@, U32MulSmall(U32Add(s.conf_win_top_offset,
                                                  s.conf_win_bottom_offset),
                                           sub_height_c))]

HevcSpsStatements == 17

\* statement k of parse_hevc_sps after the skip of the NAL header, in source
\* order, each under the condition of the block that encloses it
hevc_sps_statement(k, d, s) ==
    CASE k = 1  -> BitsToU8(d, s, 4, "vps_id")
      [] k = 2  -> BitsToU8(d, s, 3, "max_sub_layers_minus1")
      [] k = 3  -> Skip(d, s, 1)
      [] k = 4  -> parse_hevc_profile_tier_level(d, s)
      [] k = 5  -> UeToU8(d, s, "sps_id")
      [] k = 6  -> UeToU8(d, s, "chroma_format_idc")
      [] k = 7  -> hevc_sps_separate_colour_plane(d, s)
      [] k = 8  -> UeToU32(d, s, "width")
      [] k = 9  -> UeToU32(d, s, "height")
      [] k = 10 -> BitToBool(d, s, "conformance_window_flag")
      [] k = 11 -> IF s.conformance_window_flag
                   THEN UeToU32(d, s, "conf_win_left_offset") ELSE s
      [] k = 12 -> IF s.conformance_window_flag
                   THEN UeToU32(d, s, "conf_win_right_offset") ELSE s
      [] k = 13 -> IF s.conformance_window_flag
                   THEN UeToU32(d, s, "conf_win_top_offset") ELSE s
      [] k = 14 -> IF s.conformance_window_flag
                   THEN UeToU32(d, s, "conf_win_bottom_offset") ELSE s
      [] k = 15 -> IF s.conformance_window_flag
                   THEN hevc_sps_apply_window(s) ELSE s
      [] k = 16 -> UePlus8ToU8(d, s, "bit_depth_luma")
      [] k = 17 -> UePlus8ToU8(d, s, "bit_depth_chroma")

RECURSIVE hevc_sps_run(_, _, _, _)
\* the statements lo .. hi - 1 in order, from the state s left by the
\* statements before them; an exception ends the function
hevc_sps_run(d, s, lo, hi) ==
    IF s.p.st # "ok" \/ lo >= hi THEN s
    ELSE IF hi - lo = 1 THEN hevc_sps_statement(lo, d, s)
    ELSE hevc_sps_run(d, hevc_sps_run(d, s, lo, lo + ((hi - lo) \div 2)),
                      lo + ((hi - lo) \div 2), hi)

\* the statements of parse_hevc_sps on the RBSP d
hevc_sps_statements(d) ==
    hevc_sps_run(d, Fields([p |-> skip_bits(d, Cursor(0, 0), 16)],
                           Fields(HEVCSpsInfo, HevcSpsLocals)),
                 1, HevcSpsStatements + 1)

hevc_sps_result(s) ==
    IF s.p.st # "ok" THEN Failed(s.p.st)
    ELSE Decoded([k \in DOMAIN HEVCSpsInfo |-> s[k]])

\* HEVCSpsInfo parse_hevc_sps(const std::vector<uint8_t>& data)
parse_hevc_sps(bytes) ==
    IF bytes = <<>> THEN Failed("InvalidArgument")
    ELSE hevc_sps_result(hevc_sps_statements(remove_emulation_prevention_bytes(bytes)))

HEVCPpsInfo == [pps_id |-> 0, sps_id |-> 0]

hevc_pps_statements(d) ==
    LET start  == Fields([p |-> skip_bits(d, Cursor(0, 0), 16)], HEVCPpsInfo)
        pps_id == UeToU8(d, start, "pps_id")
    IN  UeToU8(d, pps_id, "sps_id")

hevc_pps_result(s) ==
    IF s.p.st # "ok" THEN Failed(s.p.st)
    ELSE Decoded([k \in DOMAIN HEVCPpsInfo |-> s[k]])

\* HEVCPpsInfo parse_hevc_pps(const std::vector<uint8_t>& data)
parse_hevc_pps(bytes) ==
    IF bytes = <<>> THEN Failed("InvalidArgument")
    ELSE hevc_pps_result(hevc_pps_statements(remove_emulation_prevention_bytes(bytes)))

-----
(* The two byte-level passes as calls on a buffer *)

\* longest exhaustively enumerated buffer of the Annex-B scanner
MaxScanLen == 9
\* longest exhaustively enumerated buffer of the RBSP normalizer
MaxRbspLen == 6

ScanBytes == {0, 1, 103}
RbspBytes == {0, 1, 3}

\* the Annex-B example of the spec: 00 00 00 01 67 42 00 00 01 68
ExampleAnnexB == <<0, 0, 0, 1, 103, 66, 0, 0, 1, 104>>

ScanInputs == SeqsUpTo(ScanBytes, MaxScanLen) \cup {ExampleAnnexB}

RbspInputs == SeqsUpTo(RbspBytes, MaxRbspLen)

ReaderIdle ==
    /\ byte_position = 0
    /\ bit_position = 0
    /\ ret = NoRet

ScanInit ==
    /\ data \in ScanInputs
    /\ pc = "ready"
    /\ ReaderIdle
    /\ OthersIdle

do_find_annexb_nal_units ==
    /\ pc = "ready"
    /\ pc' = "scanned"
    /\ nal_units' = find_annexb_nal_units(data)
    /\ UNCHANGED <<data, byte_position, bit_position, ret, idx, offset, locals,
                   info, out>>
    /\ UNCHANGED objects

SpecScan == ScanInit /\ [][do_find_annexb_nal_units]_vars

RbspInit ==
    /\ data \in RbspInputs
    /\ pc = "ready"
    /\ ReaderIdle
    /\ OthersIdle

do_remove_emulation_prevention_bytes ==
    /\ pc = "ready"
    /\ pc' = "normalized"
    /\ out' = remove_emulation_prevention_bytes(data)
    /\ UNCHANGED <<data, byte_position, bit_position, ret, nal_units, idx,
                   offset, locals, info>>
    /\ UNCHANGED objects

SpecRbsp == RbspInit /\ [][do_remove_emulation_prevention_bytes]_vars

\* 00 00 01 lies at 0-based index p of the buffer
StartCode3At(d, p) ==
    p >= 0 /\ p + 2 < Len(d) /\ At(d, p) = 0 /\ At(d, p + 1) = 0 /\ At(d, p + 2) = 1

\* 00 00 00 01 lies at 0-based index p of the buffer
StartCode4At(d, p) ==
    p >= 0 /\ p + 3 < Len(d) /\ At(d, p) = 0 /\ StartCode3At(d, p + 1)

SpanEnd(u) == u.offset + u.length

\* C4: every emitted span has length > 0 and lies inside the buffer; spans
\* come in strictly increasing offset order and do not overlap; a span starts
\* right after a 00 00 01 run and ends right before the next 3- or 4-byte
\* start code or at the buffer end, so no complete 00 00 01 run lies inside
\* it; a buffer shorter than 4 bytes yields no span.
C4_SpansWellFormed ==
    pc = "scanned"
    => /\ \A i \in 1..Len(nal_units) :
            LET u == nal_units[i]
            IN  /\ u.length > 0
                /\ SpanEnd(u) <= Len(data)
                /\ StartCode3At(data, u.offset - 3)
                /\ \/ SpanEnd(u) = Len(data)
                   \/ StartCode3At(data, SpanEnd(u))
                   \/ StartCode4At(data, SpanEnd(u))
                /\ \A p \in u.offset..(SpanEnd(u) - 3) : ~StartCode3At(data, p)
       /\ \A i \in 1..(Len(nal_units) - 1) :
            /\ nal_units[i].offset < nal_units[i + 1].offset
            /\ SpanEnd(nal_units[i]) <= nal_units[i + 1].offset
       /\ (Len(data) < MinAnnexBSize => nal_units = <<>>)

C4_Witness ==
    /\ pc = "scanned"
    /\ Len(nal_units) = 2
    /\ StartCode4At(data, SpanEnd(nal_units[1]))
    /\ SpanEnd(nal_units[2]) = Len(data)

\* C5 as amended: for the buffer 00 00 00 01 67 42 00 00 01 68 the scanner
\* returns exactly the spans (offset 4, length 2) and (offset 9, length 1).
C5_ExampleSpans ==
    (pc = "scanned" /\ data = ExampleAnnexB)
    => nal_units = <<Span(4, 2), Span(9, 1)>>

\* C5 as stated: the same buffer yields (offset 4, length 4), (offset 9, length 1).
C5_AsStated ==
    (pc = "scanned" /\ data = ExampleAnnexB)
    => nal_units = <<Span(4, 4), Span(9, 1)>>

C5_Witness == pc = "scanned" /\ data = ExampleAnnexB /\ Len(nal_units) = 2

\* the indices of the input bytes that are the 03 of a 00 00 03 run
DroppedAt(d) == {i + 2 : i \in {j \in 0..(Len(d) - 3) : IsEmulationRun(d, j)}}

\* C10: the output is the input with exactly the 03 of every 00 00 03 run
\* removed, every other byte kept in order: an input without such a run comes
\* back unchanged, the output is shorter by the number of dropped bytes, and
\* 00 00 03 01 becomes 00 00 01.
C10_RbspDropsOnly03 ==
    pc = "normalized"
    => LET D == DroppedAt(data)
       IN  /\ Len(out) = Len(data) - Cardinality(D)
           /\ \A j \in 0..(Len(data) - 1) :
                j \notin D
                => At(out, j - Cardinality({x \in D : x < j})) = At(data, j)
           /\ (D = {} => out = data)
           /\ (data = <<0, 0, 3, 1>> => out = <<0, 0, 1>>)

C10_Witness ==
    /\ pc = "normalized"
    /\ Cardinality(DroppedAt(data)) = 2
    /\ Len(out) = Len(data) - 2

-----------------------------------------------------------------------------
(* The aggregators: one loop iteration as an operator *)

\* how an iteration ends: st is "ok" or the exception that escapes it
Continue(inf) == [st |-> "ok", info |-> inf]

\* a variant that lets the decoder's exception escape the iteration
store_decoded_rethrow(inf, slot, res) ==
    IF res.st = "ok" THEN Continue([inf EXCEPT ![slot] = Some(res.v)])
    ELSE [st |-> res.st, info |-> inf]

\* a variant that writes a slot only while it is empty
store_decoded_first_only(inf, slot, res) ==
    IF res.st = "ok" /\ inf[slot] = None
    THEN Continue([inf EXCEPT ![slot] = Some(res.v)])
    ELSE Continue(inf)

\* try { info.<slot> = parse_...(nal); } catch (...) { }
store_decoded(inf, slot, res) ==
    IF res.st = "ok" THEN Continue([inf EXCEPT ![slot] = Some(res.v)])
    ELSE Continue(inf)

\* std::vector<uint8_t>(data.begin() + offset, data.begin() + offset + length)
Slice(d, o, l) == SubSeq(d, o + 1, o + l)

\* a variant that records the headers of parameter sets only
avc_annexb_body_parameter_sets_only(d, u, inf) ==
    LET header == parse_avc_nal_unit_header(At(d, u.offset))
        pushed == [inf EXCEPT !.nal_units = Append(@, header)]
        nal    == Slice(d, u.offset, u.length)
    IN  IF header.nal_unit_type = AVC_SPS
        THEN store_decoded(pushed, "sps", parse_avc_sps(nal))
        ELSE IF header.nal_unit_type = AVC_PPS
        THEN store_decoded(pushed, "pps", parse_avc_pps(nal))
        ELSE Continue(inf)

\* the body of the loop over the spans in parse_avc_annexb
avc_annexb_body(d, u, inf) ==
    IF u.length = 0 THEN Continue(inf)
    ELSE
    LET header == parse_avc_nal_unit_header(At(d, u.offset))
        pushed == [inf EXCEPT !.nal_units = Append(@, header)]
        nal    == Slice(d, u.offset, u.length)
    IN  IF header.nal_unit_type = AVC_SPS
        THEN store_decoded(pushed, "sps", parse_avc_sps(nal))
        ELSE IF header.nal_unit_type = AVC_PPS
        THEN store_decoded(pushed, "pps", parse_avc_pps(nal))
        ELSE Continue(pushed)

\* the body of the loop over the spans in parse_hevc_annexb
hevc_annexb_body(d, u, inf) ==
    IF u.length < 2 THEN Continue(inf)
    ELSE
    LET header == parse_hevc_nal_unit_header(At(d, u.offset), At(d, u.offset + 1))
        pushed == [inf EXCEPT !.nal_units = Append(@, header)]
        nal    == Slice(d, u.offset, u.length)
    IN  IF header.nal_unit_type = HEVC_VPS
        THEN store_decoded(pushed, "vps", parse_hevc_vps(nal))
        ELSE IF header.nal_unit_type = HEVC_SPS
        THEN store_decoded(pushed, "sps", parse_hevc_sps(nal))
        ELSE IF header.nal_unit_type = HEVC_PPS
        THEN store_decoded(pushed, "pps", parse_hevc_pps(nal))
        ELSE Continue(pushed)

\* (data[offset] << 8) | data[offset + 1]
U16At(d, o) == At(d, o) * 256 + At(d, o + 1)

\* how an iteration of a description loop ends: brk is the break statement
Break(o, inf) == [brk |-> TRUE, st |-> "ok", offset |-> o, info |-> inf]
Advance(o, r) == [brk |-> FALSE, st |-> r.st, offset |-> o, info |-> r.info]

\* the loop body with a throw where the code breaks on the declared length
avc_description_body_cut_throws(d, o, inf, slot) ==
    IF o + 2 > Len(d) THEN Break(o, inf)
    ELSE
    LET length == U16At(d, o)
        o2     == o + 2
    IN  IF o2 + length > Len(d) \/ length = 0
        THEN [brk |-> FALSE, st |-> "TooShort", offset |-> o2, info |-> inf]
        ELSE
        LET nal    == Slice(d, o2, length)
            header == parse_avc_nal_unit_header(nal[1])
            pushed == [inf EXCEPT !.nal_units = Append(@, header)]
        IN  Advance(o2 + length,
                  store_decoded(pushed, slot,
                                IF slot = "sps" THEN parse_avc_sps(nal)
                                ELSE parse_avc_pps(nal)))

\* the body of the SPS loop (slot "sps") and of the PPS loop (slot "pps") of
\* parse_avc_description
avc_description_body(d, o, inf, slot) ==
    IF o + 2 > Len(d) THEN Break(o, inf)
    ELSE
    LET length == U16At(d, o)
        o2     == o + 2
    IN  IF o2 + length > Len(d) \/ length = 0 THEN Break(o2, inf)
        ELSE
        LET nal    == Slice(d, o2, length)
            header == parse_avc_nal_unit_header(nal[1])
            pushed == [inf EXCEPT !.nal_units = Append(@, header)]
        IN  Advance(o2 + length,
                  store_decoded(pushed, slot,
                                IF slot = "sps" THEN parse_avc_sps(nal)
                                ELSE parse_avc_pps(nal)))

\* the loop body with the decoder chosen by the type in the unit's own header
hevc_description_body_own_type(d, o, inf, nal_type) ==
    IF o + 2 > Len(d) THEN Break(o, inf)
    ELSE
    LET nal_length == U16At(d, o)
        o2         == o + 2
    IN  IF o2 + nal_length > Len(d) THEN Break(o2, inf)
        ELSE
        LET nal == Slice(d, o2, nal_length)
        IN  IF Len(nal) >= 2
            THEN LET header == parse_hevc_nal_unit_header(nal[1], nal[2])
                     pushed == [inf EXCEPT !.nal_units = Append(@, header)]
                 IN  Advance(o2 + nal_length,
                           IF header.nal_unit_type = HEVC_VPS
                           THEN store_decoded(pushed, "vps", parse_hevc_vps(nal))
                           ELSE IF header.nal_unit_type = HEVC_SPS
                           THEN store_decoded(pushed, "sps", parse_hevc_sps(nal))
                           ELSE IF header.nal_unit_type = HEVC_PPS
                           THEN store_decoded(pushed, "pps", parse_hevc_pps(nal))
                           ELSE Continue(pushed))
            ELSE Advance(o2 + nal_length, Continue(inf))

\* the body of the loop over the NAL units of one array of
\* parse_hevc_description
hevc_description_body(d, o, inf, nal_type) ==
    IF o + 2 > Len(d) THEN Break(o, inf)
    ELSE
    LET nal_length == U16At(d, o)
        o2         == o + 2
    IN  IF o2 + nal_length > Len(d) THEN Break(o2, inf)
        ELSE
        LET nal == Slice(d, o2, nal_length)
        IN  IF Len(nal) >= 2
            THEN LET header == parse_hevc_nal_unit_header(nal[1], nal[2])
                     pushed == [inf EXCEPT !.nal_units = Append(@, header)]
                 IN  Advance(o2 + nal_length,
                           IF nal_type = HEVC_VPS
                           THEN store_decoded(pushed, "vps", parse_hevc_vps(nal))
                           ELSE IF nal_type = HEVC_SPS
                           THEN store_decoded(pushed, "sps", parse_hevc_sps(nal))
                           ELSE IF nal_type = HEVC_PPS
                           THEN store_decoded(pushed, "pps", parse_hevc_pps(nal))
                           ELSE Continue(pushed))
            ELSE Advance(o2 + nal_length, Continue(inf))

-----------------------------------------------------------------------------
(* The aggregators as calls: one step per loop iteration *)

AVCAnnexBInfo == [sps |-> None, pps |-> None, nal_units |-> <<>>]
HEVCAnnexBInfo == [vps |-> None, sps |-> None, pps |-> None, nal_units |-> <<>>]
AVCDescriptionInfo ==
    [sps |-> None, pps |-> None, nal_units |-> <<>>, length_size |-> 4]
HEVCDescriptionInfo ==
    [vps |-> None, sps |-> None, pps |-> None, nal_units |-> <<>>,
     length_size |-> 4]

MinAvcCSize == 7
MinHvcCSize == 23

\* length_size without the "+ 1"
length_size_minus_one(byte) == byte % 4

\* info.length_size = (data[4] & 0x03) + 1;  (data[21] in an hvcC record)
length_size(byte) == (byte % 4) + 1

reader_untouched == UNCHANGED <<byte_position, bit_position, ret, out>>

\* parse_avc_annexb up to its loop
avc_annexb_enter ==
    /\ pc = "parse_avc_annexb"
    /\ IF data = <<>>
       THEN /\ pc' = "avc_annexb_thrown"
            /\ UNCHANGED <<nal_units, info>>
       ELSE /\ pc' = "avc_annexb_loop"
            /\ nal_units' = find_annexb_nal_units(data)
            /\ info' = AVCAnnexBInfo
    /\ idx' = 0
    /\ UNCHANGED <<data, offset, locals>>
    /\ reader_untouched
    /\ UNCHANGED objects

avc_annexb_iterate ==
    /\ pc = "avc_annexb_loop"
    /\ idx < Len(nal_units)
    /\ \E r \in {avc_annexb_body(data, nal_units[idx + 1], info)} :
           IF r.st = "ok"
           THEN /\ info' = r.info
                /\ idx' = idx + 1
                /\ pc' = pc
           ELSE /\ pc' = "avc_annexb_thrown"
                /\ UNCHANGED <<info, idx>>
    /\ UNCHANGED <<data, nal_units, offset, locals>>
    /\ reader_untouched
    /\ UNCHANGED objects

avc_annexb_return ==
    /\ pc = "avc_annexb_loop"
    /\ idx >= Len(nal_units)
    /\ pc' = "avc_annexb_returned"
    /\ UNCHANGED <<data, nal_units, idx, offset, locals, info>>
    /\ reader_untouched
    /\ UNCHANGED objects

\* parse_hevc_annexb up to its loop
hevc_annexb_enter ==
    /\ pc = "parse_hevc_annexb"
    /\ IF data = <<>>
       THEN /\ pc' = "hevc_annexb_thrown"
            /\ UNCHANGED <<nal_units, info>>
       ELSE /\ pc' = "hevc_annexb_loop"
            /\ nal_units' = find_annexb_nal_units(data)
            /\ info' = HEVCAnnexBInfo
    /\ idx' = 0
    /\ UNCHANGED <<data, offset, locals>>
    /\ reader_untouched
    /\ UNCHANGED objects

hevc_annexb_iterate ==
    /\ pc = "hevc_annexb_loop"
    /\ idx < Len(nal_units)
    /\ \E r \in {hevc_annexb_body(data, nal_units[idx + 1], info)} :
           IF r.st = "ok"
           THEN /\ info' = r.info
                /\ idx' = idx + 1
                /\ pc' = pc
           ELSE /\ pc' = "hevc_annexb_thrown"
                /\ UNCHANGED <<info, idx>>
    /\ UNCHANGED <<data, nal_units, offset, locals>>
    /\ reader_untouched
    /\ UNCHANGED objects

hevc_annexb_return ==
    /\ pc = "hevc_annexb_loop"
    /\ idx >= Len(nal_units)
    /\ pc' = "hevc_annexb_returned"
    /\ UNCHANGED <<data, nal_units, idx, offset, locals, info>>
    /\ reader_untouched
    /\ UNCHANGED objects

\* parse_avc_description up to its SPS loop
avc_description_enter ==
    /\ pc = "parse_avc_description"
    /\ IF Len(data) < MinAvcCSize
       THEN /\ pc' = "avc_description_thrown"
            /\ UNCHANGED <<info, offset, locals>>
       ELSE /\ pc' = "avc_description_sps_loop"
            /\ info' = [AVCDescriptionInfo EXCEPT
                          !.length_size = length_size(At(data, 4))]
            /\ locals' = [locals EXCEPT !.num = At(data, 5) % 32]
            /\ offset' = 6
    /\ idx' = 0
    /\ UNCHANGED <<data, nal_units>>
    /\ reader_untouched
    /\ UNCHANGED objects

\* one iteration of the loop over the SPS entries
avc_description_sps_iterate ==
    /\ pc = "avc_description_sps_loop"
    /\ idx < locals.num
    /\ \E r \in {avc_description_body(data, offset, info, "sps")} :
           /\ offset' = r.offset
           /\ IF r.st # "ok"
              THEN /\ pc' = "avc_description_thrown"
                   /\ UNCHANGED <<info, idx>>
              ELSE /\ info' = r.info
                   /\ IF r.brk
                      THEN pc' = "avc_description_pps_count" /\ idx' = idx
                      ELSE pc' = pc /\ idx' = idx + 1
    /\ UNCHANGED <<data, nal_units, locals>>
    /\ reader_untouched
    /\ UNCHANGED objects

avc_description_sps_done ==
    /\ pc = "avc_description_sps_loop"
    /\ idx >= locals.num
    /\ pc' = "avc_description_pps_count"
    /\ UNCHANGED <<data, nal_units, idx, offset, locals, info>>
    /\ reader_untouched
    /\ UNCHANGED objects

\* if (offset >= data.size()) return info;  num_pps = data[offset]; offset++;
avc_description_pps_count ==
    /\ pc = "avc_description_pps_count"
    /\ IF offset >= Len(data)
       THEN /\ pc' = "avc_description_returned"
            /\ UNCHANGED <<offset, locals, idx>>
       ELSE /\ pc' = "avc_description_pps_loop"
            /\ locals' = [locals EXCEPT !.num = At(data, offset)]
            /\ offset' = offset + 1
            /\ idx' = 0
    /\ UNCHANGED <<data, nal_units, info>>
    /\ reader_untouched
    /\ UNCHANGED objects

\* one iteration of the loop over the PPS entries
avc_description_pps_iterate ==
    /\ pc = "avc_description_pps_loop"
    /\ idx < locals.num
    /\ \E r \in {avc_description_body(data, offset, info, "pps")} :
           /\ offset' = r.offset
           /\ IF r.st # "ok"
              THEN /\ pc' = "avc_description_thrown"
                   /\ UNCHANGED <<info, idx>>
              ELSE /\ info' = r.info
                   /\ IF r.brk
                      THEN pc' = "avc_description_returned" /\ idx' = idx
                      ELSE pc' = pc /\ idx' = idx + 1
    /\ UNCHANGED <<data, nal_units, locals>>
    /\ reader_untouched
    /\ UNCHANGED objects

avc_description_pps_done ==
    /\ pc = "avc_description_pps_loop"
    /\ idx >= locals.num
    /\ pc' = "avc_description_returned"
    /\ UNCHANGED <<data, nal_units, idx, offset, locals, info>>
    /\ reader_untouched
    /\ UNCHANGED objects

\* parse_hevc_description up to its loop over the arrays
hevc_description_enter ==
    /\ pc = "parse_hevc_description"
    /\ IF Len(data) < MinHvcCSize
       THEN /\ pc' = "hevc_description_thrown"
            /\ UNCHANGED <<info, offset, locals>>
       ELSE /\ pc' = "hevc_description_arrays"
            /\ info' = [HEVCDescriptionInfo EXCEPT
                          !.length_size = length_size(At(data, 21))]
            /\ locals' = [locals EXCEPT !.num = At(data, 22)]
            /\ offset' = 23
    /\ idx' = 0
    /\ UNCHANGED <<data, nal_units>>
    /\ reader_untouched
    /\ UNCHANGED objects

\* the head of one iteration of the loop over the arrays
hevc_description_array ==
    /\ pc = "hevc_description_arrays"
    /\ idx < locals.num
    /\ IF offset + 3 > Len(data)
       THEN /\ pc' = "hevc_description_returned"
            /\ UNCHANGED <<offset, locals>>
       ELSE /\ pc' = "hevc_description_nalus"
            /\ locals' = [locals EXCEPT !.nal_type  = At(data, offset) % 64,
                                        !.num_nalus = U16At(data, offset + 1),
                                        !.j         = 0]
            /\ offset' = offset + 3
    /\ UNCHANGED <<data, nal_units, idx, info>>
    /\ reader_untouched
    /\ UNCHANGED objects

hevc_description_arrays_done ==
    /\ pc = "hevc_description_arrays"
    /\ idx >= locals.num
    /\ pc' = "hevc_description_returned"
    /\ UNCHANGED <<data, nal_units, idx, offset, locals, info>>
    /\ reader_untouched
    /\ UNCHANGED objects

\* one iteration of the loop over the NAL units of the current array
hevc_description_nalu ==
    /\ pc = "hevc_description_nalus"
    /\ locals.j < locals.num_nalus
    /\ \E r \in {hevc_description_body(data, offset, info, locals.nal_type)} :
           /\ offset' = r.offset
           /\ IF r.st # "ok"
              THEN /\ pc' = "hevc_description_thrown"
                   /\ UNCHANGED <<info, idx, locals>>
              ELSE /\ info' = r.info
                   /\ IF r.brk
                      THEN /\ pc' = "hevc_description_arrays"
                           /\ idx' = idx + 1
                           /\ locals' = locals
                      ELSE /\ pc' = pc
                           /\ idx' = idx
                           /\ locals' = [locals EXCEPT !.j = @ + 1]
    /\ UNCHANGED <<data, nal_units>>
    /\ reader_untouched
    /\ UNCHANGED objects

hevc_description_nalus_done ==
    /\ pc = "hevc_description_nalus"
    /\ locals.j >= locals.num_nalus
    /\ pc' = "hevc_description_arrays"
    /\ idx' = idx + 1
    /\ UNCHANGED <<data, nal_units, offset, locals, info>>
    /\ reader_untouched
    /\ UNCHANGED objects

AggregatorNext ==
    \/ avc_annexb_enter
    \/ avc_annexb_iterate
    \/ avc_annexb_return
    \/ hevc_annexb_enter
    \/ hevc_annexb_iterate
    \/ hevc_annexb_return
    \/ avc_description_enter
    \/ avc_description_sps_iterate
    \/ avc_description_sps_done
    \/ avc_description_pps_count
    \/ avc_description_pps_iterate
    \/ avc_description_pps_done
    \/ hevc_description_enter
    \/ hevc_description_array
    \/ hevc_description_arrays_done
    \/ hevc_description_nalu
    \/ hevc_description_nalus_done

-----------------------------------------------------------------------------
(* Inputs of the aggregators: NAL units put together into Annex B streams *)
(* and into avcC / hvcC records                                           *)

MaxNals == 3
MaxEntries == 2

\* Baseline SPS, 16x16
AvcSpsA == <<103, 66, 192, 30, 255, 128>>
\* Main SPS with an emulation prevention byte, 32x48
AvcSpsB == <<103, 77, 0, 0, 3, 249, 60>>
\* SPS that ends inside the Exp-Golomb code of log2_max_frame_num_minus4
AvcSpsBad == <<103, 66, 192, 30, 8>>
AvcPpsA == <<104, 224>>
AvcPpsB == <<104, 88>>
\* PPS that ends inside the Exp-Golomb code of pic_parameter_set_id
AvcPpsBad == <<104, 16>>
AvcIdr == <<101, 136>>

AvcSpsNals == {AvcSpsA, AvcSpsB, AvcSpsBad}
AvcPpsNals == {AvcPpsA, AvcPpsB, AvcPpsBad}
AvcNals == AvcSpsNals \cup {AvcPpsA, AvcPpsBad, AvcIdr}

HevcVpsA == <<64, 1, 28, 5>>
\* VPS that ends inside vps_max_layers_minus1
HevcVpsBad == <<64, 1, 28>>
\* Main profile SPS, 16x16 and 32x16
HevcSpsA ==
    <<66, 1, 1, 1, 96, 0, 0, 3, 0, 144, 0, 0, 3, 0, 0, 3, 0, 93, 160, 136, 69, 128>>
HevcSpsB ==
    <<66, 1, 17, 1, 96, 0, 0, 3, 0, 144, 0, 0, 3, 0, 0, 3, 0, 120, 160, 66, 17, 96>>
\* SPS that ends inside general_constraint_indicator_flags
HevcSpsBad == <<66, 1, 1, 1, 96, 0, 0, 3, 0, 144>>
HevcPpsA == <<68, 1, 192>>
HevcIdr == <<38, 1, 175>>
\* a NAL unit of one byte
HevcOneByte == <<38>>

HevcNals ==
    {HevcVpsA, HevcVpsBad, HevcSpsA, HevcSpsBad, HevcPpsA, HevcIdr, HevcOneByte}
\* the units of a record are decoded by the type of their array: HevcVpsBad
\* is too short for each of the three decoders
HevcRecordNals == {HevcVpsBad, HevcSpsA, HevcSpsB, HevcOneByte}
\* PREFIX_SEI: the tag of an array that holds no parameter set
HEVC_PREFIX_SEI == 39
HevcArrayTypes == {HEVC_VPS, HEVC_SPS, HEVC_PPS, HEVC_PREFIX_SEI}

RECURSIVE AnnexBStream(_, _)
\* the first unit after a 4-byte start code, the others after 3-byte ones
AnnexBStream(nals, first) ==
    IF nals = <<>> THEN <<>>
    ELSE (IF first THEN <<0, 0, 0, 1>> ELSE <<0, 0, 1>>)
         \o Head(nals) \o AnnexBStream(Tail(nals), FALSE)

AnnexBStreams(lib) ==
    {AnnexBStream(nals, TRUE) : nals \in SeqsUpTo(lib, MaxNals)}

\* a 16-bit big-endian length followed by the unit
LengthPrefixed(nal) == <<Len(nal) \div 256, Len(nal) % 256>> \o nal

RECURSIVE LengthPrefixedAll(_)
LengthPrefixedAll(nals) ==
    IF nals = <<>> THEN <<>>
    ELSE LengthPrefixed(Head(nals)) \o LengthPrefixedAll(Tail(nals))

\* AVCDecoderConfigurationRecord with lengthSizeMinusOne ls
AvcRecord(ls, spss, ppss) ==
    <<1, 66, 192, 30, 252 + ls, 224 + Len(spss)>> \o LengthPrefixedAll(spss)
    \o <<Len(ppss)>> \o LengthPrefixedAll(ppss)

RECURSIVE Flatten(_)
Flatten(chunks) ==
    IF chunks = <<>> THEN <<>> ELSE Head(chunks) \o Flatten(Tail(chunks))

\* an entry that declares no byte, and one that declares 256 bytes in a
\* record that is shorter than that
ZeroLengthEntry == <<0, 0>>
OverlongEntry(nal) == <<1, 0>> \o nal

\* a record whose entries are given as they lie in the buffer; the counts
\* include the entries that are cut short
AvcRecordOf(ls, sps_entries, pps_entries) ==
    <<1, 66, 192, 30, 252 + ls, 224 + Len(sps_entries)>> \o Flatten(sps_entries)
    \o <<Len(pps_entries)>> \o Flatten(pps_entries)

AvcSpsEntries == {LengthPrefixed(AvcSpsA), ZeroLengthEntry, OverlongEntry(AvcSpsB)}
AvcPpsEntries == {LengthPrefixed(AvcPpsA), ZeroLengthEntry, OverlongEntry(AvcPpsB)}

\* records cut inside an entry or carrying an empty one
AvcTruncatedRecords ==
    {AvcRecordOf(3, ss, ps) : ss \in SeqsUpTo(AvcSpsEntries, MaxEntries),
                              ps \in SeqsUpTo(AvcPpsEntries, MaxEntries)}

\* the shortest records: every length below the minimum, and the minimum
\* with each lengthSizeMinusOne, with and without reserved bits
AvcShortRecords ==
    {SubSeq(<<1, 66, 192, 30, 255, 225>>, 1, n) : n \in 0..(MinAvcCSize - 1)}
    \cup {<<1, 66, 192, 30, b4, b5, b6>> :
             b4 \in {0, 1, 6, 7, 252, 255}, b5 \in {224, 225}, b6 \in {0, 1}}

AvcRecords ==
    {AvcRecord(3, spss, ppss) : spss \in SeqsUpTo(AvcSpsNals, MaxEntries),
                                ppss \in SeqsUpTo(AvcPpsNals, MaxEntries)}
    \cup {AvcRecord(ls, <<AvcSpsA>>, <<AvcPpsA>>) : ls \in 0..3}
    \cup AvcTruncatedRecords
    \cup AvcShortRecords

\* the number of leading entries of es that carry the type of the first
RECURSIVE RunLength(_, _)
RunLength(es, type) ==
    IF es = <<>> \/ Head(es).type # type THEN 0
    ELSE 1 + RunLength(Tail(es), type)

RECURSIVE HevcArrays(_)
\* consecutive entries of one type make one array: its type byte (with
\* array_completeness set), the 16-bit count and the units
HevcArrays(es) ==
    IF es = <<>> THEN [count |-> 0, bytes |-> <<>>]
    ELSE LET k    == RunLength(es, Head(es).type)
             rest == HevcArrays(SubSeq(es, k + 1, Len(es)))
         IN  [count |-> 1 + rest.count,
              bytes |-> <<128 + Head(es).type, 0, k>>
                        \o LengthPrefixedAll([i \in 1..k |-> es[i].nal])
                        \o rest.bytes]

\* the 21 bytes of an HEVCDecoderConfigurationRecord before lengthSizeMinusOne
HevcRecordHead ==
    <<1, 1, 96, 0, 0, 0, 144, 0, 0, 0, 0, 0, 93, 240, 0, 252, 253, 248, 248, 0, 0>>

HevcRecord(ls, es) ==
    LET arrays == HevcArrays(es)
    IN  HevcRecordHead \o <<12 + ls, arrays.count>> \o arrays.bytes

\* units filed under their own type and under each other tag
HevcEntries ==
    [type : {HEVC_SPS}, nal : HevcRecordNals]
    \cup [type : HevcArrayTypes, nal : {HevcSpsA}]
    \cup [type : {HEVC_VPS, HEVC_PREFIX_SEI}, nal : {HevcVpsBad}]
    \cup [type : {HEVC_PPS}, nal : {HevcOneByte}]

HevcRecords ==
    {HevcRecord(3, es) : es \in SeqsUpTo(HevcEntries, MaxEntries)}
    \cup {HevcRecord(ls, <<[type |-> HEVC_SPS, nal |-> HevcSpsA]>>) : ls \in 0..3}
    \cup {SubSeq(HevcRecordHead \o <<15>>, 1, n) : n \in 0..(MinHvcCSize - 1)}
    \cup {HevcRecordHead \o <<b21, 0>> : b21 \in {0, 1, 6, 7, 252, 255}}

\* buffers of no particular structure: every sequence of up to MaxJunkLen
\* bytes drawn from zero, one, a count or length of two, and bytes whose low
\* bits spell the SPS type of AVC (103) and of HEVC (161)
MaxJunkLen == 4
JunkBytes == {0, 1, 2, 103, 161}
Junk == SeqsUpTo(JunkBytes, MaxJunkLen)

\* streams that end in zero bytes or in a start code, and bare start codes
AnnexBEdges ==
    {<<0, 0, 1>>, <<0, 0, 0, 1>>, <<0, 0, 0, 0>>, <<0, 0, 1, 65, 0, 0>>,
     <<0, 0, 1, 103, 0, 0, 0>>, <<0, 0, 1, 0, 0, 0, 1>>,
     <<0, 0, 0, 1, 9, 0, 0, 1>>, <<0, 0, 1, 66, 0, 0, 1, 0, 0>>,
     <<0>>, <<1, 2, 3, 4, 5>>}

\* records whose head is followed by bytes of no particular structure
AvcJunkRecords == {<<1, 66, 192, 30, 255>> \o tail \o <<0>> : tail \in Junk}
HevcJunkRecords == {HevcRecordHead \o <<15>> \o tail \o <<0>> : tail \in Junk}

\* records that declare more arrays, units or bytes than they hold
HevcInflatedRecords ==
    {HevcRecordHead \o <<15, arrays, 128 + HEVC_SPS, 0, nalus>>
                   \o entry \o tail :
        arrays \in {1, 3, 255}, nalus \in {1, 2, 255},
        entry \in {LengthPrefixed(HevcSpsA), OverlongEntry(HevcSpsB),
                   ZeroLengthEntry, <<0>>},
        tail \in {<<>>, <<0>>, <<161, 0>>}}

AggregatorInit ==
    /\ \/ pc = "parse_avc_annexb"
          /\ data \in AnnexBStreams(AvcNals) \cup AnnexBEdges \cup (Junk \ {<<>>})
       \/ pc = "parse_hevc_annexb"
          /\ data \in AnnexBStreams(HevcNals) \cup AnnexBEdges \cup (Junk \ {<<>>})
       \/ pc = "parse_avc_description" /\ data \in AvcRecords \cup AvcJunkRecords
       \/ pc = "parse_hevc_description"
          /\ data \in HevcRecords \cup HevcJunkRecords \cup HevcInflatedRecords
    /\ ReaderIdle
    /\ OthersIdle

SpecAggregator == AggregatorInit /\ [][AggregatorNext]_vars

-----------------------------------------------------------------------------
(* What an input holds, said without the aggregators' loops *)

\* the bytes of the span u of the buffer
SpanBytes(u) == Slice(data, u.offset, u.length)

NotAttempted == Failed("NotAttempted")

\* the decode the AVC Annex B aggregator attempts on a NAL unit: by the type
\* in its header
AvcAttempt(nal, slot) ==
    IF slot = "sps" /\ nal[1] % 32 = AVC_SPS THEN parse_avc_sps(nal)
    ELSE IF slot = "pps" /\ nal[1] % 32 = AVC_PPS THEN parse_avc_pps(nal)
    ELSE NotAttempted

HevcSlotType(slot) ==
    IF slot = "vps" THEN HEVC_VPS ELSE IF slot = "sps" THEN HEVC_SPS ELSE HEVC_PPS

\* the decode the HEVC aggregators attempt on a NAL unit of the given type
\* (Annex B: the type in the header; hvcC: the type of the array)
HevcAttempt(nal, type, slot) ==
    IF Len(nal) < 2 \/ type # HevcSlotType(slot) THEN NotAttempted
    ELSE IF slot = "vps" THEN parse_hevc_vps(nal)
    ELSE IF slot = "sps" THEN parse_hevc_sps(nal)
    ELSE parse_hevc_pps(nal)

\* the first and the last successful decode of a sequence of attempts
Succeeded(rs) == {i \in DOMAIN rs : rs[i].st = "ok"}
FirstDecoded(rs) ==
    IF Succeeded(rs) = {} THEN None
    ELSE Some(rs[CHOOSE i \in Succeeded(rs) : \A j \in Succeeded(rs) : i <= j].v)
LastDecoded(rs) ==
    IF Succeeded(rs) = {} THEN None
    ELSE Some(rs[CHOOSE i \in Succeeded(rs) : \A j \in Succeeded(rs) : j <= i].v)

RECURSIVE EntriesFrom(_, _, _)
\* n length-prefixed units laid out from offset o on: ok says they all fit
EntriesFrom(d, o, n) ==
    IF n = 0 THEN [ok |-> TRUE, nals |-> <<>>, next |-> o]
    ELSE IF o + 2 > Len(d) \/ o + 2 + U16At(d, o) > Len(d)
    THEN [ok |-> FALSE, nals |-> <<>>, next |-> o]
    ELSE LET rest == EntriesFrom(d, o + 2 + U16At(d, o), n - 1)
         IN  [ok   |-> rest.ok,
              nals |-> <<Slice(d, o + 2, U16At(d, o))>> \o rest.nals,
              next |-> rest.next]

\* the layout of an avcC record: the SPS entries, the PPS count, the PPS entries
AvcCSps(d) == EntriesFrom(d, 6, At(d, 5) % 32)
AvcCPps(d) == EntriesFrom(d, AvcCSps(d).next + 1, At(d, AvcCSps(d).next))
AvcCWellFormed(d) ==
    /\ Len(d) >= MinAvcCSize
    /\ AvcCSps(d).ok
    /\ AvcCSps(d).next < Len(d)
    /\ AvcCPps(d).ok
    /\ \A i \in 1..Len(AvcCSps(d).nals) : AvcCSps(d).nals[i] # <<>>
    /\ \A i \in 1..Len(AvcCPps(d).nals) : AvcCPps(d).nals[i] # <<>>

RECURSIVE ArraysFrom(_, _, _)
\* n arrays laid out from offset o on, as one sequence of [type, nal]
ArraysFrom(d, o, n) ==
    IF n = 0 THEN [ok |-> TRUE, entries |-> <<>>]
    ELSE IF o + 3 > Len(d) THEN [ok |-> FALSE, entries |-> <<>>]
    ELSE LET units == EntriesFrom(d, o + 3, U16At(d, o + 1))
             rest  == ArraysFrom(d, units.next, n - 1)
         IN  [ok      |-> units.ok /\ rest.ok,
              entries |-> [i \in 1..Len(units.nals) |->
                             [type |-> At(d, o) % 64, nal |-> units.nals[i]]]
                          \o rest.entries]

HvcCArrays(d) == ArraysFrom(d, 23, At(d, 22))
HvcCWellFormed(d) == Len(d) >= MinHvcCSize /\ HvcCArrays(d).ok

\* all the decodes of one slot that the finished call had to attempt, in
\* input order
AvcAnnexBAttempts(slot) ==
    [i \in 1..Len(nal_units) |-> AvcAttempt(SpanBytes(nal_units[i]), slot)]
HevcAnnexBAttempts(slot) ==
    [i \in 1..Len(nal_units) |->
        HevcAttempt(SpanBytes(nal_units[i]),
                    (At(data, nal_units[i].offset) \div 2) % 64, slot)]
AvcCAttempts(slot) ==
    IF slot = "sps"
    THEN [i \in 1..Len(AvcCSps(data).nals) |-> parse_avc_sps(AvcCSps(data).nals[i])]
    ELSE [i \in 1..Len(AvcCPps(data).nals) |-> parse_avc_pps(AvcCPps(data).nals[i])]
HvcCAttempts(slot) ==
    [i \in 1..Len(HvcCArrays(data).entries) |->
        HevcAttempt(HvcCArrays(data).entries[i].nal,
                    HvcCArrays(data).entries[i].type, slot)]

AvcSlots == {"sps", "pps"}
HevcSlots == {"vps", "sps", "pps"}

\* the slots of the finished call and the attempts behind each of them;
\* no slot where the call has not returned or the record is not well formed
ReturnedSlots ==
    IF pc = "avc_annexb_returned" THEN AvcSlots
    ELSE IF pc = "hevc_annexb_returned" THEN HevcSlots
    ELSE IF pc = "avc_description_returned" /\ AvcCWellFormed(data) THEN AvcSlots
    ELSE IF pc = "hevc_description_returned" /\ HvcCWellFormed(data) THEN HevcSlots
    ELSE {}

ReturnedAttempts(slot) ==
    IF pc = "avc_annexb_returned" THEN AvcAnnexBAttempts(slot)
    ELSE IF pc = "hevc_annexb_returned" THEN HevcAnnexBAttempts(slot)
    ELSE IF pc = "avc_description_returned" THEN AvcCAttempts(slot)
    ELSE HvcCAttempts(slot)

\* the decode of one slot that the next loop iteration attempts
CurrentAttempt(slot) ==
    IF pc = "avc_annexb_loop" /\ idx < Len(nal_units)
    THEN AvcAnnexBAttempts(slot)[idx + 1]
    ELSE IF pc = "hevc_annexb_loop" /\ idx < Len(nal_units)
    THEN HevcAnnexBAttempts(slot)[idx + 1]
    ELSE IF offset + 2 > Len(data) \/ offset + 2 + U16At(data, offset) > Len(data)
    THEN NotAttempted
    ELSE IF pc = "avc_description_sps_loop" /\ idx < locals.num
            /\ slot = "sps" /\ U16At(data, offset) > 0
    THEN parse_avc_sps(Slice(data, offset + 2, U16At(data, offset)))
    ELSE IF pc = "avc_description_pps_loop" /\ idx < locals.num
            /\ slot = "pps" /\ U16At(data, offset) > 0
    THEN parse_avc_pps(Slice(data, offset + 2, U16At(data, offset)))
    ELSE IF pc = "hevc_description_nalus" /\ locals.j < locals.num_nalus
    THEN HevcAttempt(Slice(data, offset + 2, U16At(data, offset)),
                     locals.nal_type, slot)
    ELSE NotAttempted

RunningSlots ==
    IF pc \in {"avc_annexb_loop", "avc_description_sps_loop",
               "avc_description_pps_loop"} THEN AvcSlots
    ELSE IF pc \in {"hevc_annexb_loop", "hevc_description_nalus"} THEN HevcSlots
    ELSE {}

Thrown ==
    {"avc_annexb_thrown", "hevc_annexb_thrown", "avc_description_thrown",
     "hevc_description_thrown"}

\* an aggregator call fails only on an empty buffer or a record that is too
\* short, never because of a parameter set
NeverFailsOnParameterSet ==
    /\ pc \in {"avc_annexb_thrown", "hevc_annexb_thrown"} => data = <<>>
    /\ pc = "avc_description_thrown" => Len(data) < MinAvcCSize
    /\ pc = "hevc_description_thrown" => Len(data) < MinHvcCSize

\* a slot for which the input holds a decodable parameter set is returned
\* filled, whatever failed to decode elsewhere in the input
DecodableIsReturned ==
    \A slot \in ReturnedSlots :
        Succeeded(ReturnedAttempts(slot)) # {} => info[slot] # None

\* an iteration whose decode fails leaves every slot as it was and goes on
FailedDecodeKeepsSlots ==
    \A slot \in RunningSlots :
        CurrentAttempt(slot).st \notin {"ok", "NotAttempted"}
        => /\ pc' \notin Thrown
           /\ \A other \in RunningSlots : info'[other] = info[other]

\* C1: in the four aggregators a parameter set whose decode fails never makes
\* the call fail, never keeps a well-formed parameter set of the same input
\* from being returned, and leaves the slot of its type with the value it had
\* before the attempt.
C1_FailedDecodeIsSkipped ==
    /\ [](NeverFailsOnParameterSet /\ DecodableIsReturned)
    /\ [][FailedDecodeKeepsSlots]_vars

\* an SPS, then an SPS cut inside an Exp-Golomb code, then a PPS: the call
\* returns the first SPS and the PPS
C1_Witness ==
    /\ pc = "avc_annexb_returned"
    /\ Len(nal_units) = 3
    /\ SpanBytes(nal_units[1]) = AvcSpsA
    /\ SpanBytes(nal_units[2]) = AvcSpsBad
    /\ SpanBytes(nal_units[3]) = AvcPpsA
    /\ parse_avc_sps(AvcSpsBad).st = "OutOfData"
    /\ info.sps = Some(parse_avc_sps(AvcSpsA).v)
    /\ info.pps = Some(parse_avc_pps(AvcPpsA).v)

LongEnoughForHevcHeader(u) == u.length >= 2

\* C3 as amended: parse_avc_annexb appends one header per span, in span
\* order; parse_hevc_annexb appends one header per span of at least two
\* bytes, in span order, and none for a span of one byte; in both, whether or
\* not the unit is a parameter set and whether or not it decodes.
C3_HeaderPerSpan ==
    /\ pc = "avc_annexb_returned"
       => info.nal_units =
            [i \in 1..Len(nal_units) |->
                parse_avc_nal_unit_header(At(data, nal_units[i].offset))]
    /\ pc = "hevc_annexb_returned"
       => LET long == SelectSeq(nal_units, LongEnoughForHevcHeader)
          IN  info.nal_units =
                [i \in 1..Len(long) |->
                    parse_hevc_nal_unit_header(At(data, long[i].offset),
                                               At(data, long[i].offset + 1))]

\* C3 as stated: the header list is as long as the span list
C3_AsStated ==
    pc \in {"avc_annexb_returned", "hevc_annexb_returned"}
    => Len(info.nal_units) = Len(nal_units)

\* a slice, an SPS that does not decode and a unit of one byte
C3_Witness ==
    /\ pc = "hevc_annexb_returned"
    /\ Len(nal_units) = 3
    /\ SpanBytes(nal_units[1]) = HevcIdr
    /\ SpanBytes(nal_units[2]) = HevcSpsBad
    /\ SpanBytes(nal_units[3]) = HevcOneByte
    /\ Len(info.nal_units) = 2
    /\ info.sps = None

-----------------------------------------------------------------------------
(* parse_avc_description: what every record yields *)

AvcDescriptionRunning ==
    pc \in {"avc_description_sps_loop", "avc_description_pps_count",
            "avc_description_pps_loop"}

\* the low two bits of byte 4 of the record, plus one
LengthSizeOf(d) == (d[5] - 4 * (d[5] \div 4)) + 1

\* the record carries exactly one SPS entry and then exactly one PPS entry,
\* both complete and both decodable
OneSpsOnePps(d) ==
    /\ AvcCWellFormed(d)
    /\ Len(AvcCSps(d).nals) = 1
    /\ Len(AvcCPps(d).nals) = 1
    /\ parse_avc_sps(AvcCSps(d).nals[1]).st = "ok"
    /\ parse_avc_pps(AvcCPps(d).nals[1]).st = "ok"

\* C11: parse_avc_description fails exactly on the records shorter than 7
\* bytes; on every longer record it returns length_size = (byte 4 & 3) + 1,
\* a value in 1..4, and on a record that carries one decodable SPS entry
\* followed by one decodable PPS entry it returns both parameter sets.
C11_AvcDescriptionResult ==
    /\ pc = "avc_description_thrown" => Len(data) < MinAvcCSize
    /\ AvcDescriptionRunning \/ pc = "avc_description_returned"
         => /\ Len(data) >= MinAvcCSize
            /\ info.length_size = LengthSizeOf(data)
            /\ info.length_size \in 1..4
    /\ pc = "avc_description_returned" /\ OneSpsOnePps(data)
         => /\ info.sps = Some(parse_avc_sps(AvcCSps(data).nals[1]).v)
            /\ info.pps = Some(parse_avc_pps(AvcCPps(data).nals[1]).v)

\* a record with lengthSizeMinusOne = 1 has returned its SPS and its PPS
C11_Witness ==
    /\ pc = "avc_description_returned"
    /\ OneSpsOnePps(data)
    /\ info.length_size = 2
    /\ info.sps # None
    /\ info.pps # None

\* a record of fewer than 7 bytes has been rejected
C11_WitnessRejected ==
    pc = "avc_description_thrown" /\ Len(data) = MinAvcCSize - 1

RECURSIVE EntriesUntilCut(_, _, _)
\* the entries that lie whole in the buffer before the first of the n entries
\* from offset o that is cut; cut says why the walk stopped: "none" (all n
\* entries are whole), "prefix" (fewer than two bytes left for the length),
\* "zero" or "overlong" (the declared length); next is the offset the walk
\* has reached
EntriesUntilCut(d, o, n) ==
    IF n = 0 THEN [cut |-> "none", nals |-> <<>>, next |-> o]
    ELSE IF o + 2 > Len(d) THEN [cut |-> "prefix", nals |-> <<>>, next |-> o]
    ELSE IF U16At(d, o) = 0 THEN [cut |-> "zero", nals |-> <<>>, next |-> o + 2]
    ELSE IF o + 2 + U16At(d, o) > Len(d)
    THEN [cut |-> "overlong", nals |-> <<>>, next |-> o + 2]
    ELSE LET rest == EntriesUntilCut(d, o + 2 + U16At(d, o), n - 1)
         IN  [cut  |-> rest.cut,
              nals |-> <<Slice(d, o + 2, U16At(d, o))>> \o rest.nals,
              next |-> rest.next]

SpsUntilCut(d) == EntriesUntilCut(d, 6, At(d, 5) % 32)
\* the PPS section starts at the byte the SPS walk has reached
PpsUntilCut(d) ==
    IF SpsUntilCut(d).next >= Len(d)
    THEN [cut |-> "none", nals |-> <<>>, next |-> SpsUntilCut(d).next]
    ELSE EntriesUntilCut(d, SpsUntilCut(d).next + 1, At(d, SpsUntilCut(d).next))

AvcHeaders(nals) == [i \in 1..Len(nals) |-> parse_avc_nal_unit_header(nals[i][1])]
AvcSpsDecodes(nals) == [i \in 1..Len(nals) |-> parse_avc_sps(nals[i])]
AvcPpsDecodes(nals) == [i \in 1..Len(nals) |-> parse_avc_pps(nals[i])]

\* C12: an entry of an avcC record whose declared length is zero or exceeds
\* the bytes that remain ends its section: the call returns, no later entry
\* of the section is decoded, and what was gathered before that entry (SPS,
\* PPS, headers, length_size) is in the returned record.
C12_TruncatedEntryEndsSection ==
    /\ pc = "avc_description_thrown" => Len(data) < MinAvcCSize
    /\ pc = "avc_description_returned" =>
         /\ info.length_size = LengthSizeOf(data)
         /\ info.sps = LastDecoded(AvcSpsDecodes(SpsUntilCut(data).nals))
         /\ Len(info.nal_units) >= Len(SpsUntilCut(data).nals)
         /\ SubSeq(info.nal_units, 1, Len(SpsUntilCut(data).nals))
              = AvcHeaders(SpsUntilCut(data).nals)
         /\ SpsUntilCut(data).cut = "none" =>
              /\ info.pps = LastDecoded(AvcPpsDecodes(PpsUntilCut(data).nals))
              /\ info.nal_units = AvcHeaders(SpsUntilCut(data).nals)
                                  \o AvcHeaders(PpsUntilCut(data).nals)

\* a record whose second PPS entry declares more bytes than remain has
\* returned the SPS and the PPS that precede it
C12_Witness ==
    /\ pc = "avc_description_returned"
    /\ SpsUntilCut(data).cut = "none"
    /\ PpsUntilCut(data).cut = "overlong"
    /\ Len(PpsUntilCut(data).nals) = 1
    /\ info.sps # None
    /\ info.pps # None
    /\ Len(info.nal_units) = 2

\* a record whose second SPS entry declares no byte has returned the SPS
\* that precedes it
C12_WitnessSps ==
    /\ pc = "avc_description_returned"
    /\ SpsUntilCut(data).cut = "zero"
    /\ Len(SpsUntilCut(data).nals) = 1
    /\ info.sps # None

-----------------------------------------------------------------------------
(* parse_hevc_description: the array tag selects the decoder *)

HevcDescriptionRunning ==
    pc \in {"hevc_description_arrays", "hevc_description_nalus"}

\* the decoder an array tag selects
DecoderOfTag(tag) ==
    IF tag = 32 THEN "vps" ELSE IF tag = 33 THEN "sps"
    ELSE IF tag = 34 THEN "pps" ELSE "none"

\* the type a NAL unit carries in its own header: bits 6-1 of its first byte
OwnType(nal) == (nal[1] \div 2) % 64

HasHevcHeader(e) == Len(e.nal) >= 2

\* what the decoder selected by the tag of its array makes of an entry
TagDecode(e, slot) ==
    IF ~HasHevcHeader(e) \/ DecoderOfTag(e.type) # slot THEN NotAttempted
    ELSE IF slot = "vps" THEN parse_hevc_vps(e.nal)
    ELSE IF slot = "sps" THEN parse_hevc_sps(e.nal)
    ELSE parse_hevc_pps(e.nal)

TagDecodes(es, slot) == [i \in 1..Len(es) |-> TagDecode(es[i], slot)]

\* C13: parse_hevc_description fails exactly on the records shorter than 23
\* bytes; otherwise length_size = (byte 21 & 3) + 1, every embedded unit of
\* at least 2 bytes is decoded by the decoder its array's 6-bit tag selects
\* (32 VPS, 33 SPS, 34 PPS, any other none) whatever type its own header
\* carries, and the header recorded for it is decoded from its own first two
\* bytes.
C13_ArrayTagSelectsDecoder ==
    /\ pc = "hevc_description_thrown" => Len(data) < MinHvcCSize
    /\ HevcDescriptionRunning \/ pc = "hevc_description_returned"
         => /\ Len(data) >= MinHvcCSize
            /\ info.length_size = (data[22] - 4 * (data[22] \div 4)) + 1
    /\ pc = "hevc_description_returned" /\ HvcCWellFormed(data)
         => LET es   == HvcCArrays(data).entries
                long == SelectSeq(es, HasHevcHeader)
            IN  /\ \A slot \in HevcSlots :
                       info[slot] = LastDecoded(TagDecodes(es, slot))
                /\ info.nal_units =
                     [i \in 1..Len(long) |->
                         parse_hevc_nal_unit_header(long[i].nal[1], long[i].nal[2])]

\* an SPS unit filed in a VPS array has been decoded as a VPS, and its
\* recorded header carries the type of the unit itself
C13_Witness ==
    /\ pc = "hevc_description_returned"
    /\ HvcCWellFormed(data)
    /\ Len(HvcCArrays(data).entries) = 1
    /\ HvcCArrays(data).entries[1].type = HEVC_VPS
    /\ OwnType(HvcCArrays(data).entries[1].nal) = HEVC_SPS
    /\ info.vps # None
    /\ info.sps = None
    /\ Len(info.nal_units) = 1
    /\ info.nal_units[1].nal_unit_type = HEVC_SPS

\* a decodable SPS unit filed in an array of another tag is decoded by none
C13_WitnessOtherTag ==
    /\ pc = "hevc_description_returned"
    /\ HvcCWellFormed(data)
    /\ Len(HvcCArrays(data).entries) = 1
    /\ HvcCArrays(data).entries[1].type = HEVC_PREFIX_SEI
    /\ parse_hevc_sps(HvcCArrays(data).entries[1].nal).st = "ok"
    /\ info.vps = None /\ info.sps = None /\ info.pps = None
    /\ Len(info.nal_units) = 1

-----------------------------------------------------------------------------
(* The SPS decoders as calls: parse_avc_sps and parse_hevc_sps on one NAL  *)
(* unit.  locals keeps the decoder's record when it returns: the struct    *)
(* and the function's local variables.                                     *)

do_parse_avc_sps ==
    /\ pc = "parse_avc_sps"
    /\ IF data = <<>>
       THEN /\ pc' = "avc_sps_thrown"
            /\ out' = Failed("InvalidArgument")
            /\ locals' = locals
       ELSE \E s \in {avc_sps_statements(remove_emulation_prevention_bytes(data))} :
                /\ locals' = s
                /\ out' = avc_sps_result(s)
                /\ pc' = IF s.p.st = "ok" THEN "avc_sps_returned"
                         ELSE "avc_sps_thrown"
    /\ UNCHANGED <<data, nal_units, idx, offset, info>>
    /\ UNCHANGED <<byte_position, bit_position, ret>>
    /\ UNCHANGED objects

do_parse_hevc_sps ==
    /\ pc = "parse_hevc_sps"
    /\ IF data = <<>>
       THEN /\ pc' = "hevc_sps_thrown"
            /\ out' = Failed("InvalidArgument")
            /\ locals' = locals
       ELSE \E s \in {hevc_sps_statements(remove_emulation_prevention_bytes(data))} :
                /\ locals' = s
                /\ out' = hevc_sps_result(s)
                /\ pc' = IF s.p.st = "ok" THEN "hevc_sps_returned"
                         ELSE "hevc_sps_thrown"
    /\ UNCHANGED <<data, nal_units, idx, offset, info>>
    /\ UNCHANGED <<byte_position, bit_position, ret>>
    /\ UNCHANGED objects

SpsNext == do_parse_avc_sps \/ do_parse_hevc_sps

-----------------------------------------------------------------------------
(* Inputs of the SPS decoders: NAL units written field by field *)

\* largest pic_width_in_mbs_minus1 / pic_height_in_map_units_minus1 written
MaxMbsMinus1 == 1

Bits8(n) == LowBits(U32Of(n), 8)
Ue(n) == UeCodeBits(U32Of(n))
FlagBit(b) == IF b THEN <<1>> ELSE <<0>>

\* the High-profile block: chroma_format_idc, separate_colour_plane_flag
\* (written when chroma_format_idc is 3), the bit depths minus 8,
\* qpprime_y_zero_transform_bypass_flag, seq_scaling_matrix_present_flag and,
\* when that is set, eight absent scaling lists
AvcHighBlockBits(f) ==
    Ue(f.cfi) \o (IF f.cfi = 3 THEN <<0>> ELSE <<>>)
    \o Ue(f.bdl) \o Ue(f.bdc) \o <<0>>
    \o (IF f.scaling THEN <<1>> \o Zeros(8) ELSE <<0>>)

\* frame_cropping_flag and the four offsets
AvcCropBits(crop) ==
    IF crop = <<>> THEN <<0>>
    ELSE <<1>> \o Ue(crop[1]) \o Ue(crop[2]) \o Ue(crop[3]) \o Ue(crop[4])

\* an AVC SPS NAL unit: header, profile, constraint flags, level, sps_id, the
\* High-profile block when f.high, log2_max_frame_num_minus4 = 0,
\* pic_order_cnt_type = 2, max_num_ref_frames = 1, no gaps, the size in
\* macroblocks, frame_mbs_only_flag (and mb_adaptive_frame_field_flag = 0),
\* direct_8x8_inference_flag, cropping, no VUI, the stop bit
AvcSpsBytes(f) ==
    <<103, f.profile, 192, 30>>
    \o BitsToBytes(
         Ue(f.sps_id)
         \o (IF f.high THEN AvcHighBlockBits(f) ELSE <<>>)
         \o Ue(0) \o Ue(2) \o Ue(1) \o <<0>>
         \o Ue(f.w) \o Ue(f.h)
         \o FlagBit(f.fmo) \o (IF f.fmo THEN <<>> ELSE <<0>>)
         \o <<1>>
         \o AvcCropBits(f.crop)
         \o <<0, 1>>)

AvcSpsField ==
    [profile |-> 66, high |-> FALSE, sps_id |-> 0, cfi |-> 1, bdl |-> 0,
     bdc |-> 0, scaling |-> FALSE, w |-> 0, h |-> 0, fmo |-> TRUE, crop |-> <<>>]

\* cropping: none, zero, inside a picture of one macroblock, and wider and
\* taller than two macroblocks
AvcCrops == {<<>>, <<0, 0, 0, 0>>, <<1, 2, 0, 1>>, <<9, 8, 0, 0>>, <<0, 0, 17, 20>>}

\* sizes and cropping, Baseline and High with every chroma format
AvcSizedSps ==
    {[AvcSpsField EXCEPT !.profile = pr[1], !.high = pr[2], !.cfi = pr[3],
                         !.w = w, !.h = h, !.fmo = fmo, !.crop = crop] :
        pr \in {<<66, FALSE, 1>>} \cup {<<100, TRUE, c>> : c \in 0..3},
        w \in 0..MaxMbsMinus1, h \in 0..MaxMbsMinus1,
        fmo \in BOOLEAN, crop \in AvcCrops}

\* Exp-Golomb values at and beyond the ends of the 8-bit fields
WideIds == {0, 31, 255, 256, 259}
WideChromaFormats == {1, 3, 256, 259}
WideBitDepths == {0, 4, 247, 248, 256}

AvcWideSps ==
    {[AvcSpsField EXCEPT !.profile = 100, !.high = TRUE, !.sps_id = id,
                         !.cfi = c, !.bdl = l, !.bdc = ch] :
        id \in WideIds, c \in WideChromaFormats, l \in WideBitDepths,
        ch \in {0, 248}}

\* every profile_idc of the High-profile test and some outside it, each
\* written with and without the High-profile block
AvcProfiles ==
    {100, 110, 122, 244, 44, 83, 86, 118, 128, 138, 139, 134, 135}
    \cup {0, 66, 77, 88, 99, 101, 136, 255}

AvcProfiledSps ==
    {[AvcSpsField EXCEPT !.profile = pr, !.high = high, !.cfi = c[1],
                         !.scaling = c[2], !.bdl = 2, !.bdc = 4, !.w = 1] :
        pr \in AvcProfiles, high \in BOOLEAN,
        c \in {<<0, FALSE>>, <<2, FALSE>>, <<3, FALSE>>, <<1, TRUE>>}}

AvcSpsInputs ==
    {AvcSpsBytes(f) : f \in AvcSizedSps \cup AvcWideSps \cup AvcProfiledSps}
    \cup {<<>>, <<103>>, <<103, 100, 0, 30>>}

\* the NAL header, vps_id, max_sub_layers_minus1 = 0 and the
\* profile_tier_level of an HEVC SPS
HevcSpsHead == SubSeq(HevcSpsA, 1, 18)

\* conformance_window_flag and the four offsets
HevcWindowBits(win) ==
    IF win = <<>> THEN <<0>>
    ELSE <<1>> \o Ue(win[1]) \o Ue(win[2]) \o Ue(win[3]) \o Ue(win[4])

\* an HEVC SPS NAL unit up to the bit depths, then the stop bit
HevcSpsBytes(f) ==
    HevcSpsHead
    \o BitsToBytes(
         Ue(f.sps_id) \o Ue(f.cfi) \o (IF f.cfi = 3 THEN <<0>> ELSE <<>>)
         \o Ue(f.w) \o Ue(f.h) \o HevcWindowBits(f.win)
         \o Ue(f.bdl) \o Ue(f.bdc) \o <<1>>)

HevcWideSps ==
    [sps_id : WideIds, cfi : WideChromaFormats, w : {64}, h : {48},
     win : {<<>>, <<0, 0, 0, 4>>}, bdl : WideBitDepths, bdc : {0, 248}]

HevcSpsInputs ==
    {HevcSpsBytes(f) : f \in HevcWideSps} \cup {<<>>, HevcSpsA, HevcSpsBad}

SpsInit ==
    /\ \/ pc = "parse_avc_sps" /\ data \in AvcSpsInputs
       \/ pc = "parse_hevc_sps" /\ data \in HevcSpsInputs
    /\ ReaderIdle
    /\ OthersIdle

SpecSps == SpsInit /\ [][SpsNext]_vars

-----------------------------------------------------------------------------
(* parse_avc_sps / parse_hevc_sps: what the returned record holds *)

\* a uint32_t small enough to be used as an integer of the checker
SmallU32(a) == a[1] = 0 /\ a[2] < 2048
IntOf(a) == a[2]

\* SubWidthC and SubHeightC of a chroma format: 4:2:0, 4:2:2, 4:4:4, monochrome
SubWidthC(cfi) == IF cfi = 1 \/ cfi = 2 THEN 2 ELSE 1
SubHeightC(cfi) == IF cfi = 1 THEN 2 ELSE 1

\* the size of the picture over the integers, from what the decoder read
FrameHeightFactor(l) == IF l.frame_mbs_only_flag THEN 1 ELSE 2
CodedWidth(l) == (IntOf(l.pic_width_in_mbs_minus1) + 1) * 16
CodedHeight(l) ==
    (IntOf(l.pic_height_in_map_units_minus1) + 1) * 16 * FrameHeightFactor(l)
CroppedWidth(l) ==
    CodedWidth(l)
    - (IntOf(l.frame_crop_left_offset) + IntOf(l.frame_crop_right_offset))
      * SubWidthC(l.chroma_format_idc)
CroppedHeight(l) ==
    CodedHeight(l)
    - (IntOf(l.frame_crop_top_offset) + IntOf(l.frame_crop_bottom_offset))
      * SubHeightC(l.chroma_format_idc) * FrameHeightFactor(l)

\* the decoder returned, with a chroma format of the standard and with sizes
\* and offsets that are small numbers
AvcSizeDecoded ==
    /\ pc = "avc_sps_returned"
    /\ locals.chroma_format_idc \in 0..3
    /\ SmallU32(locals.pic_width_in_mbs_minus1)
    /\ SmallU32(locals.pic_height_in_map_units_minus1)
    /\ SmallU32(locals.frame_crop_left_offset)
    /\ SmallU32(locals.frame_crop_right_offset)
    /\ SmallU32(locals.frame_crop_top_offset)
    /\ SmallU32(locals.frame_crop_bottom_offset)

\* C14: for every AVC SPS that decodes, width and height are the coded size
\* minus the cropping, computed over the integers: never above the coded
\* size, never a value wrapped modulo 2^32.
C14_AsStated ==
    AvcSizeDecoded =>
        /\ CroppedWidth(locals) >= 0
        /\ CroppedHeight(locals) >= 0
        /\ out.v.width = U32Of(CroppedWidth(locals))
        /\ out.v.height = U32Of(CroppedHeight(locals))

\* what holds of the code: the claimed value whenever the cropping fits in
\* the coded size
C14_ResolutionWhenCropFits ==
    AvcSizeDecoded =>
        /\ CroppedWidth(locals) >= 0 => out.v.width = U32Of(CroppedWidth(locals))
        /\ CroppedHeight(locals) >= 0 => out.v.height = U32Of(CroppedHeight(locals))

\* a picture of 16 columns cropped by 34 has come back more than 2^32 - 65536
\* columns wide
C14_Wrapped ==
    /\ AvcSizeDecoded
    /\ CodedWidth(locals) = 16
    /\ CroppedWidth(locals) = 16 - 34
    /\ out.v.width = <<65535, 65536 - 18>>

\* the Exp-Golomb values of the High-profile block as the reader decodes
\* them from the RBSP d: sps_id from bit 32 on, chroma_format_idc,
\* separate_colour_plane_flag skipped when chroma_format_idc is 3, then the
\* two bit depths minus 8
AvcIdUe(d) == read_ue(d, Cursor(4, 0))
AvcChromaUe(d) == ThenUe(d, AvcIdUe(d))
AfterChroma(d, chroma) ==
    IF chroma.st = "ok" /\ chroma.val = U32Of(3)
    THEN skip_bits(d, chroma.r, 1) ELSE chroma
AvcLumaDepthUe(d) == ThenUe(d, AfterChroma(d, AvcChromaUe(d)))
AvcChromaDepthUe(d) == ThenUe(d, AvcLumaDepthUe(d))

\* the same values of an HEVC SPS with max_sub_layers_minus1 = 0: sps_id
\* from bit 120 on, chroma_format_idc, the flag, the size, the conformance
\* window, the bit depths
HevcIdUe(d) == read_ue(d, Cursor(15, 0))
HevcChromaUe(d) == ThenUe(d, HevcIdUe(d))
HevcWidthUe(d) == ThenUe(d, AfterChroma(d, HevcChromaUe(d)))
HevcHeightUe(d) == ThenUe(d, HevcWidthUe(d))
HevcWindowFlag(d) == ThenBit(d, HevcHeightUe(d))
AfterWindow(d, flag) ==
    IF flag.st = "ok" /\ flag.val = U32Of(1)
    THEN ThenUe(d, ThenUe(d, ThenUe(d, ThenUe(d, flag))))
    ELSE flag
HevcLumaDepthUe(d) == ThenUe(d, AfterWindow(d, HevcWindowFlag(d)))
HevcChromaDepthUe(d) == ThenUe(d, HevcLumaDepthUe(d))

\* the kept 8-bit field holds the decoded value v, and v + k
Keeps(field, ue) == ue.st = "ok" /\ ue.val = U32Of(field)
KeepsPlus8(field, ue) ==
    /\ ue.st = "ok"
    /\ ue.val[1] = 0
    /\ field = ue.val[2] + 8

Rbsp == remove_emulation_prevention_bytes(data)

AvcHighDecoded == pc = "avc_sps_returned" /\ out.v.profile_idc = 100
HevcFlatDecoded == pc = "hevc_sps_returned" /\ locals.max_sub_layers_minus1 = 0

\* C15: the record keeps the values decoded from the stream, for every value
\* read_ue can return: sps_id and chroma_format_idc are the decoded values,
\* the bit depths the decoded values plus 8, and the
\* separate_colour_plane_flag is skipped exactly when the decoded
\* chroma_format_idc is 3.
C15_AsStated ==
    /\ AvcHighDecoded =>
         /\ Keeps(out.v.sps_id, AvcIdUe(Rbsp))
         /\ Keeps(out.v.chroma_format_idc, AvcChromaUe(Rbsp))
         /\ KeepsPlus8(out.v.bit_depth_luma, AvcLumaDepthUe(Rbsp))
         /\ KeepsPlus8(out.v.bit_depth_chroma, AvcChromaDepthUe(Rbsp))
    /\ HevcFlatDecoded =>
         /\ Keeps(out.v.sps_id, HevcIdUe(Rbsp))
         /\ Keeps(out.v.chroma_format_idc, HevcChromaUe(Rbsp))
         /\ KeepsPlus8(out.v.bit_depth_luma, HevcLumaDepthUe(Rbsp))
         /\ KeepsPlus8(out.v.bit_depth_chroma, HevcChromaDepthUe(Rbsp))

\* what holds of the code: the claim for streams whose four values fit the
\* 8-bit fields
FitsU8(ue, most) == ue.st = "ok" /\ ue.val[1] = 0 /\ ue.val[2] <= most
C15_KeptWhenInRange ==
    /\ /\ AvcHighDecoded
       /\ FitsU8(AvcIdUe(Rbsp), 255)
       /\ FitsU8(AvcChromaUe(Rbsp), 255)
       /\ FitsU8(AvcLumaDepthUe(Rbsp), 247)
       /\ FitsU8(AvcChromaDepthUe(Rbsp), 247)
       => /\ Keeps(out.v.sps_id, AvcIdUe(Rbsp))
          /\ Keeps(out.v.chroma_format_idc, AvcChromaUe(Rbsp))
          /\ KeepsPlus8(out.v.bit_depth_luma, AvcLumaDepthUe(Rbsp))
          /\ KeepsPlus8(out.v.bit_depth_chroma, AvcChromaDepthUe(Rbsp))
    /\ /\ HevcFlatDecoded
       /\ FitsU8(HevcIdUe(Rbsp), 255)
       /\ FitsU8(HevcChromaUe(Rbsp), 255)
       /\ FitsU8(HevcLumaDepthUe(Rbsp), 247)
       /\ FitsU8(HevcChromaDepthUe(Rbsp), 247)
       => /\ Keeps(out.v.sps_id, HevcIdUe(Rbsp))
          /\ Keeps(out.v.chroma_format_idc, HevcChromaUe(Rbsp))
          /\ KeepsPlus8(out.v.bit_depth_luma, HevcLumaDepthUe(Rbsp))
          /\ KeepsPlus8(out.v.bit_depth_chroma, HevcChromaDepthUe(Rbsp))

\* an AVC SPS that spells chroma_format_idc = 259 has come back with
\* chroma_format_idc = 3
C15_Narrowed ==
    /\ AvcHighDecoded
    /\ AvcChromaUe(Rbsp).st = "ok"
    /\ AvcChromaUe(Rbsp).val = U32Of(259)
    /\ out.v.chroma_format_idc = 3

\* the same for an HEVC SPS, with a bit depth of 256 + 8 kept as 8
C15_NarrowedHevc ==
    /\ HevcFlatDecoded
    /\ HevcChromaUe(Rbsp).val = U32Of(1)
    /\ HevcLumaDepthUe(Rbsp).st = "ok"
    /\ HevcLumaDepthUe(Rbsp).val = U32Of(256)
    /\ out.v.bit_depth_luma = 8

\* the profile_idc values for which the standard defines the block
ProfilesWithChromaBlock == {100, 110, 122, 244, 44, 83, 86, 118, 128, 138, 139, 134, 135}

\* pic_width_in_mbs_minus1 of a stream without the block and with
\* pic_order_cnt_type = 2: the sixth Exp-Golomb value from bit 32 on, one bit
\* after the fifth
AvcPocUe(d) == ThenUe(d, ThenUe(d, AvcIdUe(d)))
AvcWidthUeFlat(d) == ThenUe(d, ThenSkip(d, ThenUe(d, AvcPocUe(d)), 1))

\* the same of a stream with the block (no scaling matrix): the block's four
\* values and two flags come first
AvcPocUeHigh(d) == ThenUe(d, ThenUe(d, ThenSkip(d, AvcChromaDepthUe(d), 2)))
AvcWidthUeHigh(d) == ThenUe(d, ThenSkip(d, ThenUe(d, AvcPocUeHigh(d)), 1))

\* C16: parse_avc_sps reads the High-profile block (chroma_format_idc, the
\* bit depths, the bypass flag, the scaling matrix) exactly for the profiles
\* 100, 110, 122, 244, 44, 83, 86, 118, 128, 138, 139, 134, 135; for any
\* other profile the bit after sps_id starts log2_max_frame_num_minus4 and
\* the record has chroma_format_idc = 1 and both bit depths 8.
C16_HighProfileBlock ==
    pc = "avc_sps_returned" =>
        IF out.v.profile_idc \in ProfilesWithChromaBlock
        THEN /\ out.v.chroma_format_idc = U8(AvcChromaUe(Rbsp).val)
             /\ FitsU8(AvcChromaUe(Rbsp), 255) =>
                  /\ out.v.bit_depth_luma
                       = U8(U32Add(AvcLumaDepthUe(Rbsp).val, U32Of(8)))
                  /\ out.v.bit_depth_chroma
                       = U8(U32Add(AvcChromaDepthUe(Rbsp).val, U32Of(8)))
                  /\ ~locals.seq_scaling_matrix_present_flag
                     /\ AvcPocUeHigh(Rbsp).val = U32Of(2)
                     => locals.pic_width_in_mbs_minus1 = AvcWidthUeHigh(Rbsp).val
        ELSE /\ out.v.chroma_format_idc = 1
             /\ out.v.bit_depth_luma = 8
             /\ out.v.bit_depth_chroma = 8
             /\ ~locals.seq_scaling_matrix_present_flag
             /\ AvcPocUe(Rbsp).val = U32Of(2)
                => locals.pic_width_in_mbs_minus1 = AvcWidthUeFlat(Rbsp).val

\* profile 135 with 4:2:2 and bit depths 10 and 12 has been read from the
\* block
C16_Witness ==
    /\ pc = "avc_sps_returned"
    /\ out.v.profile_idc = 135
    /\ out.v.chroma_format_idc = 2
    /\ out.v.bit_depth_luma = 10
    /\ out.v.bit_depth_chroma = 12
    /\ out.v.width = U32Of(32)

\* profile 66 written without the block has been read without it
C16_WitnessBaseline ==
    /\ pc = "avc_sps_returned"
    /\ out.v.profile_idc = 66
    /\ AvcPocUe(Rbsp).val = U32Of(2)
    /\ out.v.chroma_format_idc = 1
    /\ out.v.bit_depth_luma = 8
    /\ out.v.width = U32Of(32)

\* a stream with an all-absent scaling matrix has been read
C16_WitnessScaling ==
    /\ pc = "avc_sps_returned"
    /\ out.v.profile_idc = 100
    /\ locals.seq_scaling_matrix_present_flag
    /\ out.v.width = U32Of(32)

-----------------------------------------------------------------------------
(* The NAL header decoders as calls, on every header value *)

do_parse_avc_nal_unit_header ==
    /\ pc = "parse_avc_nal_unit_header"
    /\ out' = parse_avc_nal_unit_header(data[1])
    /\ pc' = "avc_header_returned"
    /\ UNCHANGED <<data, nal_units, idx, offset, locals, info>>
    /\ UNCHANGED <<byte_position, bit_position, ret>>
    /\ UNCHANGED objects

do_parse_hevc_nal_unit_header ==
    /\ pc = "parse_hevc_nal_unit_header"
    /\ out' = parse_hevc_nal_unit_header(data[1], data[2])
    /\ pc' = "hevc_header_returned"
    /\ UNCHANGED <<data, nal_units, idx, offset, locals, info>>
    /\ UNCHANGED <<byte_position, bit_position, ret>>
    /\ UNCHANGED objects

HeaderNext == do_parse_avc_nal_unit_header \/ do_parse_hevc_nal_unit_header

Bytes == 0..255

HeaderInit ==
    /\ \/ pc = "parse_avc_nal_unit_header" /\ data \in {<<b>> : b \in Bytes}
       \/ pc = "parse_hevc_nal_unit_header"
          /\ data \in {<<b0, b1>> : b0 \in Bytes, b1 \in Bytes}
    /\ ReaderIdle
    /\ OthersIdle

SpecHeader == HeaderInit /\ [][HeaderNext]_vars

\* bit k of a byte, bit 0 the least significant
BitOf(b, k) == (b \div (2 ^ k)) % 2

\* C17: NAL header decoding is exact for every header value.  AVC:
\* nal_ref_idc is bits 6-5 and nal_unit_type bits 4-0 of the byte, is_idr iff
\* the type is 5, is_key_frame iff the type is 5 or 7.  HEVC: nal_unit_type
\* is bits 6-1 of byte 0, nuh_layer_id bit 0 of byte 0 followed by bits 7-3 of
\* byte 1, nuh_temporal_id_plus1 bits 2-0 of byte 1, is_irap iff the type is
\* in 16..21, is_key_frame iff is_irap or the type is 32 or 33.
C17_HeaderFields ==
    /\ pc = "avc_header_returned" =>
         /\ out.nal_ref_idc = 2 * BitOf(data[1], 6) + BitOf(data[1], 5)
         /\ out.nal_unit_type
              = 16 * BitOf(data[1], 4) + 8 * BitOf(data[1], 3)
                + 4 * BitOf(data[1], 2) + 2 * BitOf(data[1], 1) + BitOf(data[1], 0)
         /\ out.is_idr <=> out.nal_unit_type = 5
         /\ out.is_key_frame <=> out.nal_unit_type \in {5, 7}
    /\ pc = "hevc_header_returned" =>
         /\ out.nal_unit_type
              = 32 * BitOf(data[1], 6) + 16 * BitOf(data[1], 5)
                + 8 * BitOf(data[1], 4) + 4 * BitOf(data[1], 3)
                + 2 * BitOf(data[1], 2) + BitOf(data[1], 1)
         /\ out.nuh_layer_id
              = 32 * BitOf(data[1], 0) + 16 * BitOf(data[2], 7)
                + 8 * BitOf(data[2], 6) + 4 * BitOf(data[2], 5)
                + 2 * BitOf(data[2], 4) + BitOf(data[2], 3)
         /\ out.nuh_temporal_id_plus1
              = 4 * BitOf(data[2], 2) + 2 * BitOf(data[2], 1) + BitOf(data[2], 0)
         /\ out.is_irap <=> out.nal_unit_type \in 16..21
         /\ out.is_key_frame <=> (out.is_irap \/ out.nal_unit_type \in {32, 33})

\* the header 43 F9 has been decoded: an SPS of layer 63, temporal id 1, a
\* key frame that is no IRAP
C17_Witness ==
    /\ pc = "hevc_header_returned"
    /\ data = <<67, 249>>
    /\ out.nal_unit_type = 33
    /\ out.nuh_layer_id = 63
    /\ out.nuh_temporal_id_plus1 = 1
    /\ out.is_key_frame
    /\ ~out.is_irap

\* the AVC header 65 has been decoded: an IDR slice with nal_ref_idc 3
C17_WitnessAvc ==
    /\ pc = "avc_header_returned"
    /\ data = <<101>>
    /\ out.nal_unit_type = 5
    /\ out.nal_ref_idc = 3
    /\ out.is_idr
    /\ out.is_key_frame

-----------------------------------------------------------------------------
(* Codec strings (codec_parser.cpp).  A std::string is a sequence of       *)
(* one-character strings; an int is an integer of the checker (both are    *)
(* 32-bit two's complement).  A call returns [st, v]: st is "ok" or the    *)
(* exception thrown ("invalid_argument", "out_of_range").                  *)

\* str.substr(0, n)
Prefix(str, n) == SubSeq(str, 1, IF n < Len(str) THEN n ELSE Len(str))

\* str.substr(pos, count) for pos <= str.size()
Substr(str, pos, count) ==
    SubSeq(str, pos + 1, IF pos + count < Len(str) THEN pos + count ELSE Len(str))

\* str.substr(pos)
SubstrFrom(str, pos) == SubSeq(str, pos + 1, Len(str))

\* the positions of the delimiter in str, and the k-th of them
DelimiterPositions(str, delimiter) == {i \in 1..Len(str) : str[i] = delimiter}
DelimiterAt(str, delimiter, k) ==
    IF k = 0 THEN 0
    ELSE IF k > Cardinality(DelimiterPositions(str, delimiter)) THEN Len(str) + 1
    ELSE CHOOSE i \in DelimiterPositions(str, delimiter) :
             Cardinality({j \in DelimiterPositions(str, delimiter) : j <= i}) = k

\* std::vector<std::string> split_string(const std::string& str, char
\* delimiter): std::getline yields one token per delimiter and one for the
\* characters after the last delimiter, if there are any
split_string(str, delimiter) ==
    LET n == Cardinality(DelimiterPositions(str, delimiter))
            + (IF str # <<>> /\ str[Len(str)] # delimiter THEN 1 ELSE 0)
    IN  [k \in 1..n |->
            SubSeq(str, DelimiterAt(str, delimiter, k - 1) + 1,
                   DelimiterAt(str, delimiter, k) - 1)]

IntMax == 2147483647
IntMin == (-2147483647) - 1

\* the characters std::isspace accepts in the "C" locale that a string of
\* the model can hold
Whitespace == {" ", "\t", "\n", "\r", "\f"}

DecimalDigits == <<"0", "1", "2", "3", "4", "5", "6", "7", "8", "9">>
HexLower == <<"a", "b", "c", "d", "e", "f">>
HexUpper == <<"A", "B", "C", "D", "E", "F">>

\* the value of a character as a digit of the base, -1 if it is none
DigitValue(c, base) ==
    IF \E v \in 1..10 : DecimalDigits[v] = c
    THEN (CHOOSE v \in 1..10 : DecimalDigits[v] = c) - 1
    ELSE IF base = 16 /\ \E v \in 1..6 : HexLower[v] = c
    THEN (CHOOSE v \in 1..6 : HexLower[v] = c) + 9
    ELSE IF base = 16 /\ \E v \in 1..6 : HexUpper[v] = c
    THEN (CHOOSE v \in 1..6 : HexUpper[v] = c) + 9
    ELSE -1

IsDigit(str, i, base) == i >= 1 /\ i <= Len(str) /\ DigitValue(str[i], base) >= 0

\* the first index from i on that holds no character of the set, Len + 1
\* if there is none
FirstOutside(str, i, set) ==
    IF \E j \in i..Len(str) : str[j] \notin set
    THEN CHOOSE j \in i..Len(str) :
             str[j] \notin set /\ \A k \in i..(j - 1) : str[k] \in set
    ELSE Len(str) + 1

\* the first index from i on that holds no digit, Len + 1 if there is none
DigitsEnd(str, i, base) ==
    IF \E j \in i..Len(str) : ~IsDigit(str, j, base)
    THEN CHOOSE j \in i..Len(str) :
             ~IsDigit(str, j, base) /\ \A k \in i..(j - 1) : IsDigit(str, k, base)
    ELSE Len(str) + 1

CeilDiv(x, b) == (x + b - 1) \div b

\* one digit more of the number: strtol accumulates within long and stoi
\* rejects what does not fit int
stoi_digit(acc, digit, base, negative) ==
    IF acc.st # "ok" THEN acc
    ELSE IF negative
    THEN IF acc.val < CeilDiv(IntMin + digit, base)
         THEN [st |-> "out_of_range", val |-> 0]
         ELSE [st |-> "ok", val |-> acc.val * base - digit]
    ELSE IF acc.val > (IntMax - digit) \div base
         THEN [st |-> "out_of_range", val |-> 0]
         ELSE [st |-> "ok", val |-> acc.val * base + digit]

RECURSIVE stoi_digits(_, _, _, _, _, _)
\* the digits at lo .. hi - 1, from the number acc read before them
stoi_digits(str, acc, lo, hi, base, negative) ==
    IF acc.st # "ok" \/ lo >= hi THEN acc
    ELSE IF hi - lo = 1
    THEN stoi_digit(acc, DigitValue(str[lo], base), base, negative)
    ELSE stoi_digits(str,
                     stoi_digits(str, acc, lo, lo + ((hi - lo) \div 2), base, negative),
                     lo + ((hi - lo) \div 2), hi, base, negative)

\* where the digits start: after the white space, the sign and, in base 16,
\* a 0x or 0X that a hexadecimal digit follows
stoi_sign_at(str) == FirstOutside(str, 1, Whitespace)
stoi_has_sign(str) ==
    stoi_sign_at(str) <= Len(str) /\ str[stoi_sign_at(str)] \in {"+", "-"}
stoi_negative(str) == stoi_has_sign(str) /\ str[stoi_sign_at(str)] = "-"
stoi_after_sign(str) == stoi_sign_at(str) + (IF stoi_has_sign(str) THEN 1 ELSE 0)
stoi_has_0x(str, base) ==
    /\ base = 16
    /\ stoi_after_sign(str) + 2 <= Len(str)
    /\ str[stoi_after_sign(str)] = "0"
    /\ str[stoi_after_sign(str) + 1] \in {"x", "X"}
    /\ IsDigit(str, stoi_after_sign(str) + 2, 16)
stoi_digits_at(str, base) ==
    stoi_after_sign(str) + (IF stoi_has_0x(str, base) THEN 2 ELSE 0)

\* int std::stoi(const std::string& str, std::size_t* pos = nullptr, int
\* base): the longest number at the start of str, whatever follows it
stoi(str, base) ==
    IF DigitsEnd(str, stoi_digits_at(str, base), base) = stoi_digits_at(str, base)
    THEN [st |-> "invalid_argument", val |-> 0]
    ELSE stoi_digits(str, [st |-> "ok", val |-> 0], stoi_digits_at(str, base),
                     DigitsEnd(str, stoi_digits_at(str, base), base),
                     base, stoi_negative(str))

\* static_cast<uint8_t>(n) and static_cast<uint16_t>(n) of an int
ToUint8(n) == n % 256
ToUint16(n) == n % 65536

\* the result of stoi narrowed to uint8_t
narrow_uint8(r) == IF r.st # "ok" THEN r ELSE [st |-> "ok", val |-> ToUint8(r.val)]
narrow_uint16(r) == IF r.st # "ok" THEN r ELSE [st |-> "ok", val |-> ToUint16(r.val)]

\* uint8_t hex_to_uint8(const std::string& hex)
hex_to_uint8(hex) ==
    IF Len(hex) # 2 THEN [st |-> "invalid_argument", val |-> 0]
    ELSE narrow_uint8(stoi(hex, 16))

\* uint8_t dec_to_uint8(const std::string& dec)
dec_to_uint8(dec) == narrow_uint8(stoi(dec, 10))

\* the string literals of codec_parser.cpp
Str_av01_dot == <<"a", "v", "0", "1", ".">>
Str_avc1 == <<"a", "v", "c", "1">>
Str_avc3 == <<"a", "v", "c", "3">>
Str_avc1_dot == <<"a", "v", "c", "1", ".">>
Str_avc3_dot == <<"a", "v", "c", "3", ".">>
Str_hvc1 == <<"h", "v", "c", "1">>
Str_hev1 == <<"h", "e", "v", "1">>
Str_hvc1_dot == <<"h", "v", "c", "1", ".">>
Str_hev1_dot == <<"h", "e", "v", "1", ".">>
Str_vp8 == <<"v", "p", "8">>
Str_vp09_dot == <<"v", "p", "0", "9", ".">>

\* a parser threads one record s through its statements: s.st is "ok" or
\* the exception that has left the function, the other fields are the
\* struct under construction
Raise(s, e) == [s EXCEPT !.st = e]
Require(s, condition) == IF condition THEN s ELSE Raise(s, "invalid_argument")
\* params.field = <conversion>;  with r the outcome of the conversion
SetField(s, field, r) ==
    IF r.st # "ok" THEN Raise(s, r.st) ELSE [s EXCEPT ![field] = r.val]
\* if (parts.size() >= n) params.field = <conversion>;
SetOptional(s, field, parts, n, r) ==
    IF Len(parts) < n THEN s
    ELSE IF r.st # "ok" THEN Raise(s, r.st)
    ELSE [s EXCEPT ![field] = Some(r.val)]

\* parts[i] of the code (parts is indexed from 1 here); an empty string
\* where a statement that is not reached would index past the end
Part(parts, i) == IF i + 1 <= Len(parts) THEN parts[i + 1] ELSE <<>>

\* return params; or the exception leaves the function
codec_result(s) ==
    IF s.st # "ok" THEN Failed(s.st)
    ELSE Decoded([k \in DOMAIN s \ {"st"} |-> s[k]])

AV1CodecParameters ==
    [st |-> "ok", kind |-> "AV1", profile |-> 0, level |-> 0, tier |-> "M",
     bit_depth |-> 8, monochrome |-> None, chroma_subsampling |-> None,
     color_primaries |-> None, transfer_characteristics |-> None,
     matrix_coefficients |-> None, video_full_range_flag |-> None]

Av1Statements == 14

\* statement k of parse_av1_codec_string, in source order
av1_statement(k, str, parts, s) ==
    CASE k = 1  -> Require(s, Prefix(str, 5) = Str_av01_dot)
      [] k = 2  -> Require(s, Len(parts) >= 4)
      [] k = 3  -> SetField(s, "profile", dec_to_uint8(Part(parts, 1)))
      [] k = 4  -> Require(s, s.profile <= 2)
      [] k = 5  -> Require(s, Len(Part(parts, 2)) >= 3)
      [] k = 6  -> SetField(s, "level", dec_to_uint8(Substr(Part(parts, 2), 0, 2)))
      [] k = 7  -> Require([s EXCEPT !.tier = Part(parts, 2)[3]],
                           Part(parts, 2)[3] \in {"M", "H"})
      [] k = 8  -> SetField(s, "bit_depth", dec_to_uint8(Part(parts, 3)))
      [] k = 9  -> Require(s, s.bit_depth \in {8, 10, 12})
      [] k = 10 -> SetOptional(s, "monochrome", parts, 5,
                               dec_to_uint8(Part(parts, 4)))
      [] k = 11 -> SetOptional(s, "chroma_subsampling", parts, 6,
                               narrow_uint16(stoi(Part(parts, 5), 10)))
      [] k = 12 -> SetOptional(s, "color_primaries", parts, 7,
                               dec_to_uint8(Part(parts, 6)))
      [] k = 13 -> SetOptional(s, "transfer_characteristics", parts, 8,
                               dec_to_uint8(Part(parts, 7)))
      [] k = 14 -> SetOptional(SetOptional(s, "matrix_coefficients", parts, 9,
                                           dec_to_uint8(Part(parts, 8))),
                               "video_full_range_flag", parts, 10,
                               dec_to_uint8(Part(parts, 9)))

RECURSIVE av1_run(_, _, _, _, _)
\* the statements lo .. hi - 1 in order; an exception ends the function
av1_run(str, parts, s, lo, hi) ==
    IF s.st # "ok" \/ lo >= hi THEN s
    ELSE IF hi - lo = 1 THEN av1_statement(lo, str, parts, s)
    ELSE av1_run(str, parts, av1_run(str, parts, s, lo, lo + ((hi - lo) \div 2)),
                 lo + ((hi - lo) \div 2), hi)

\* AV1CodecParameters parse_av1_codec_string(const std::string& codec_string)
parse_av1_codec_string(str) ==
    codec_result(av1_run(str, split_string(str, "."), AV1CodecParameters,
                         1, Av1Statements + 1))

AVCCodecParameters ==
    [st |-> "ok", kind |-> "AVC", prefix |-> <<>>, profile_idc |-> 0,
     constraint_set_flags |-> 0, level_idc |-> 0]

AvcCodecStatements == 8

MinAvcCodecStringLength == 11

\* statement k of parse_avc_codec_string, in source order
avc_codec_statement(k, str, s) ==
    CASE k = 1 -> Require(s, Len(str) >= MinAvcCodecStringLength)
      [] k = 2 -> Require(s, Substr(str, 0, 4) \in {Str_avc1, Str_avc3})
      [] k = 3 -> Require(s, str[5] = ".")
      [] k = 4 -> [s EXCEPT !.prefix = Substr(str, 0, 4)]
      [] k = 5 -> Require(s, Len(Substr(str, 5, 6)) = 6)
      [] k = 6 -> SetField(s, "profile_idc",
                           hex_to_uint8(Substr(Substr(str, 5, 6), 0, 2)))
      [] k = 7 -> SetField(s, "constraint_set_flags",
                           hex_to_uint8(Substr(Substr(str, 5, 6), 2, 2)))
      [] k = 8 -> SetField(s, "level_idc",
                           hex_to_uint8(Substr(Substr(str, 5, 6), 4, 2)))

RECURSIVE avc_codec_run(_, _, _, _)
avc_codec_run(str, s, lo, hi) ==
    IF s.st # "ok" \/ lo >= hi THEN s
    ELSE IF hi - lo = 1 THEN avc_codec_statement(lo, str, s)
    ELSE avc_codec_run(str, avc_codec_run(str, s, lo, lo + ((hi - lo) \div 2)),
                       lo + ((hi - lo) \div 2), hi)

\* AVCCodecParameters parse_avc_codec_string(const std::string& codec_string)
parse_avc_codec_string(str) ==
    codec_result(avc_codec_run(str, AVCCodecParameters, 1, AvcCodecStatements + 1))

HEVCCodecParameters ==
    [st |-> "ok", kind |-> "HEVC", prefix |-> <<>>, general_profile_space |-> <<>>,
     general_profile_idc |-> 0, general_profile_compatibility_flags |-> <<>>,
     general_tier_flag |-> <<>>, general_level_idc |-> 0,
     general_constraint_indicator_flags |-> <<>>]

\* try { field = dec_to_uint8(...); } catch (...) { field = 0; }
OrZero(r) == IF r.st = "ok" THEN r.val ELSE 0

HevcCodecStatements == 8

MinHevcCodecStringLength == 5

\* statement k of parse_hevc_codec_string, in source order
hevc_codec_statement(k, str, parts, s) ==
    CASE k = 1 -> Require(s, Len(str) >= MinHevcCodecStringLength)
      [] k = 2 -> Require(s, Substr(str, 0, 4) \in {Str_hvc1, Str_hev1})
      [] k = 3 -> Require(s, str[5] = ".")
      [] k = 4 -> Require(s, Len(parts) >= 4)
      [] k = 5 -> [s EXCEPT !.prefix = Substr(str, 0, 4),
                            !.general_profile_space = Part(parts, 1),
                            !.general_profile_idc =
                                OrZero(dec_to_uint8(Part(parts, 1)))]
      [] k = 6 -> [s EXCEPT !.general_profile_compatibility_flags = Part(parts, 2),
                            !.general_tier_flag = Part(parts, 3)]
      [] k = 7 -> IF Len(Part(parts, 3)) > 1 /\ Part(parts, 3)[1] = "L"
                  THEN [s EXCEPT !.general_level_idc =
                            OrZero(dec_to_uint8(SubstrFrom(Part(parts, 3), 1)))]
                  ELSE s
      [] k = 8 -> IF Len(parts) >= 5
                  THEN [s EXCEPT !.general_constraint_indicator_flags =
                                     Part(parts, 4)]
                  ELSE s

RECURSIVE hevc_codec_run(_, _, _, _, _)
hevc_codec_run(str, parts, s, lo, hi) ==
    IF s.st # "ok" \/ lo >= hi THEN s
    ELSE IF hi - lo = 1 THEN hevc_codec_statement(lo, str, parts, s)
    ELSE hevc_codec_run(str, parts,
                        hevc_codec_run(str, parts, s, lo, lo + ((hi - lo) \div 2)),
                        lo + ((hi - lo) \div 2), hi)

\* HEVCCodecParameters parse_hevc_codec_string(const std::string& codec_string)
parse_hevc_codec_string(str) ==
    codec_result(hevc_codec_run(str, split_string(str, "."), HEVCCodecParameters,
                                1, HevcCodecStatements + 1))

VP8CodecParameters == [st |-> "ok", kind |-> "VP8"]

\* VP8CodecParameters parse_vp8_codec_string(const std::string& codec_string)
parse_vp8_codec_string(str) ==
    codec_result(Require(VP8CodecParameters, str = Str_vp8))

\* the members parse_vp9_codec_string assigns; the optional ones are empty
\* until assigned
VP9CodecParameters ==
    [st |-> "ok", kind |-> "VP9", profile |-> 0, level |-> 0, bit_depth |-> 8,
     chroma_subsampling |-> None, color_primaries |-> None,
     transfer_characteristics |-> None, matrix_coefficients |-> None,
     video_full_range_flag |-> None]

Vp9Statements == 12

\* statement k of parse_vp9_codec_string, in source order
vp9_statement(k, str, parts, s) ==
    CASE k = 1  -> Require(s, Prefix(str, 5) = Str_vp09_dot)
      [] k = 2  -> Require(s, Len(parts) >= 4)
      [] k = 3  -> SetField(s, "profile", dec_to_uint8(Part(parts, 1)))
      [] k = 4  -> Require(s, s.profile <= 3)
      [] k = 5  -> SetField(s, "level", dec_to_uint8(Part(parts, 2)))
      [] k = 6  -> SetField(s, "bit_depth", dec_to_uint8(Part(parts, 3)))
      [] k = 7  -> Require(s, s.bit_depth \in {8, 10, 12})
      [] k = 8  -> SetOptional(s, "chroma_subsampling", parts, 5,
                               dec_to_uint8(Part(parts, 4)))
      [] k = 9  -> SetOptional(s, "color_primaries", parts, 6,
                               dec_to_uint8(Part(parts, 5)))
      [] k = 10 -> SetOptional(s, "transfer_characteristics", parts, 7,
                               dec_to_uint8(Part(parts, 6)))
      [] k = 11 -> SetOptional(s, "matrix_coefficients", parts, 8,
                               dec_to_uint8(Part(parts, 7)))
      [] k = 12 -> SetOptional(s, "video_full_range_flag", parts, 9,
                               dec_to_uint8(Part(parts, 8)))

RECURSIVE vp9_run(_, _, _, _, _)
vp9_run(str, parts, s, lo, hi) ==
    IF s.st # "ok" \/ lo >= hi THEN s
    ELSE IF hi - lo = 1 THEN vp9_statement(lo, str, parts, s)
    ELSE vp9_run(str, parts, vp9_run(str, parts, s, lo, lo + ((hi - lo) \div 2)),
                 lo + ((hi - lo) \div 2), hi)

\* VP9CodecParameters parse_vp9_codec_string(const std::string& codec_string)
parse_vp9_codec_string(str) ==
    codec_result(vp9_run(str, split_string(str, "."), VP9CodecParameters,
                         1, Vp9Statements + 1))

MinCodecStringLength == 5

\* the dispatch without its test for "hev1."
parse_codec_string_without_hev1(str) ==
    IF str = Str_vp8 THEN parse_vp8_codec_string(str)
    ELSE IF Len(str) < MinCodecStringLength THEN Failed("invalid_argument")
    ELSE IF Substr(str, 0, 5) = Str_av01_dot THEN parse_av1_codec_string(str)
    ELSE IF Substr(str, 0, 5) \in {Str_avc1_dot, Str_avc3_dot}
    THEN parse_avc_codec_string(str)
    ELSE IF Substr(str, 0, 5) = Str_hvc1_dot THEN parse_hevc_codec_string(str)
    ELSE IF Substr(str, 0, 5) = Str_vp09_dot THEN parse_vp9_codec_string(str)
    ELSE Failed("invalid_argument")

\* CodecParameters parse_codec_string(const std::string& codec_string)
parse_codec_string(str) ==
    IF str = Str_vp8 THEN parse_vp8_codec_string(str)
    ELSE IF Len(str) < MinCodecStringLength THEN Failed("invalid_argument")
    ELSE IF Substr(str, 0, 5) = Str_av01_dot THEN parse_av1_codec_string(str)
    ELSE IF Substr(str, 0, 5) \in {Str_avc1_dot, Str_avc3_dot}
    THEN parse_avc_codec_string(str)
    ELSE IF Substr(str, 0, 5) \in {Str_hvc1_dot, Str_hev1_dot}
    THEN parse_hevc_codec_string(str)
    ELSE IF Substr(str, 0, 5) = Str_vp09_dot THEN parse_vp9_codec_string(str)
    ELSE Failed("invalid_argument")

\* ---- the codec string functions as operations: one call each ----

do_parse_codec_string ==
    /\ pc = "parse_codec_string"
    /\ out' = parse_codec_string(data)
    /\ pc' = IF out'.st = "ok"
             THEN "codec_string_returned" ELSE "codec_string_thrown"
    /\ UNCHANGED <<data, nal_units, idx, offset, locals, info>>
    /\ UNCHANGED <<byte_position, bit_position, ret>>
    /\ UNCHANGED objects

do_parse_av1_codec_string ==
    /\ pc = "parse_av1_codec_string"
    /\ out' = parse_av1_codec_string(data)
    /\ pc' = IF out'.st = "ok"
             THEN "av1_codec_string_returned" ELSE "av1_codec_string_thrown"
    /\ UNCHANGED <<data, nal_units, idx, offset, locals, info>>
    /\ UNCHANGED <<byte_position, bit_position, ret>>
    /\ UNCHANGED objects

do_parse_avc_codec_string ==
    /\ pc = "parse_avc_codec_string"
    /\ out' = parse_avc_codec_string(data)
    /\ pc' = IF out'.st = "ok"
             THEN "avc_codec_string_returned" ELSE "avc_codec_string_thrown"
    /\ UNCHANGED <<data, nal_units, idx, offset, locals, info>>
    /\ UNCHANGED <<byte_position, bit_position, ret>>
    /\ UNCHANGED objects

do_parse_hevc_codec_string ==
    /\ pc = "parse_hevc_codec_string"
    /\ out' = parse_hevc_codec_string(data)
    /\ pc' = IF out'.st = "ok"
             THEN "hevc_codec_string_returned" ELSE "hevc_codec_string_thrown"
    /\ UNCHANGED <<data, nal_units, idx, offset, locals, info>>
    /\ UNCHANGED <<byte_position, bit_position, ret>>
    /\ UNCHANGED objects

do_parse_vp8_codec_string ==
    /\ pc = "parse_vp8_codec_string"
    /\ out' = parse_vp8_codec_string(data)
    /\ pc' = IF out'.st = "ok"
             THEN "vp8_codec_string_returned" ELSE "vp8_codec_string_thrown"
    /\ UNCHANGED <<data, nal_units, idx, offset, locals, info>>
    /\ UNCHANGED <<byte_position, bit_position, ret>>
    /\ UNCHANGED objects

do_parse_vp9_codec_string ==
    /\ pc = "parse_vp9_codec_string"
    /\ out' = parse_vp9_codec_string(data)
    /\ pc' = IF out'.st = "ok"
             THEN "vp9_codec_string_returned" ELSE "vp9_codec_string_thrown"
    /\ UNCHANGED <<data, nal_units, idx, offset, locals, info>>
    /\ UNCHANGED <<byte_position, bit_position, ret>>
    /\ UNCHANGED objects

CodecNext ==
    \/ do_parse_codec_string
    \/ do_parse_av1_codec_string
    \/ do_parse_avc_codec_string
    \/ do_parse_hevc_codec_string
    \/ do_parse_vp8_codec_string
    \/ do_parse_vp9_codec_string

\* ---- codec strings given to the functions ----

\* a.b.c
Dotted(a, b, c) == a \o <<".">> \o b \o <<".">> \o c

\* the two characters of one hex byte, well formed or not
HexPairChars == {"0", "4", "E", "f", "G", " ", "-"}
HexPairs == {<<a, b>> : a \in HexPairChars, b \in HexPairChars}
ConstraintPairs ==
    {<<"E", "0">>, <<"0", "x">>, <<"z", "z">>}
LevelTexts ==
    {<<"1", "E">>, <<"1">>, <<"1", "g">>, <<>>}
AvcTails ==
    {<<>>, <<"0">>, <<".", "x">>}
AvcPrefixes ==
    {<<"a", "v", "c", "1">>, <<"a", "v", "c", "3">>, <<"a", "v", "c", "2">>,
     <<"A", "v", "c", "1">>}
AvcCodecStrings ==
    {prefix \o sep \o pp \o cc \o ll \o tail :
        prefix \in AvcPrefixes, sep \in {<<".">>}, pp \in HexPairs,
        cc \in ConstraintPairs, ll \in LevelTexts, tail \in AvcTails}

\* texts of a decimal segment: in range, above 255, negative, signed,
\* padded, followed by other characters, not a number, too large for int
ProfileTexts ==
    {<<"0">>, <<"1">>, <<"2">>, <<"3">>, <<"4">>, <<"0", "0">>, <<"0", "2">>,
     <<"2", "5", "5">>, <<"2", "5", "6">>, <<"2", "5", "8">>,
     <<"2", "5", "9">>, <<"2", "6", "0">>, <<"-", "1">>,
     <<"-", "2", "5", "4">>, <<"-", "2", "5", "3">>, <<"+", "1">>,
     <<" ", "1">>, <<"1", "x">>, <<"x">>, <<>>,
     <<"9", "9", "9", "9", "9", "9", "9", "9", "9", "9", "9">>}
Av1LevelTierTexts ==
    {<<"0", "4", "M">>, <<"0", "4", "H">>, <<"0", "4", "L">>, <<"4", "M">>,
     <<"0", "4">>, <<"x", "x", "M">>, <<"0">>, <<"0", "4", "M", "M">>,
     <<"-", "1", "H">>}
Vp9LevelTexts ==
    {<<"1", "0">>, <<"x">>, <<"2", "5", "6">>, <<>>}
BitDepthTexts ==
    {<<"0", "8">>, <<"8">>, <<"1", "0">>, <<"1", "2">>, <<"9">>,
     <<"2", "6", "4">>, <<"2", "6", "6">>, <<"2", "6", "8">>,
     <<"-", "2", "4", "8">>, <<"8", "b", "i", "t">>, <<>>, <<"x">>}
OptionalTails ==
    {<<>>, <<".", "0">>,
     <<".", "0", ".", "1", "1", "2", ".", "0", "9", ".", "1", "6", ".", "0", "9", ".", "0">>,
     <<".", "x">>, <<".", "0", ".", "7", "0", "0", "0", "0">>, <<".">>,
     <<".", "0", ".", "9", "9", "9", "9", "9", "9", "9", "9", "9", "9", "9">>}
Av1CodecStrings ==
    {Dotted(<<"a", "v", "0", "1">>, p, Dotted(lt, d, <<>>)) :
        p \in ProfileTexts, lt \in Av1LevelTierTexts, d \in {<<>>}}
    \cup {Dotted(<<"a", "v", "0", "1">>, p, lt) \o <<".">> \o d \o tail :
        p \in ProfileTexts, lt \in Av1LevelTierTexts, d \in BitDepthTexts,
        tail \in OptionalTails}
Vp9CodecStrings ==
    {Dotted(<<"v", "p", "0", "9">>, p, l) \o <<".">> \o d \o tail :
        p \in ProfileTexts, l \in Vp9LevelTexts, d \in BitDepthTexts,
        tail \in OptionalTails}
HevcProfileTexts ==
    {<<"1">>, <<"A", "1">>, <<>>, <<"3", "0", "0">>}
HevcLevelTexts ==
    {<<"L", "9", "3">>, <<"H", "1", "2", "0">>, <<"L">>, <<"L", "x">>,
     <<"L", "3", "0", "0">>, <<>>}
HevcTails ==
    {<<>>, <<".", "B", "0">>, <<".", "B", "0", ".", "0", "0">>}
HevcPrefixes ==
    {<<"h", "v", "c", "1">>, <<"h", "e", "v", "1">>, <<"h", "v", "c", "2">>}
HevcCodecStrings ==
    {Dotted(prefix, p, <<"6">>) \o sep \o l \o tail :
        prefix \in HevcPrefixes, p \in HevcProfileTexts,
        sep \in {<<".">>, <<>>}, l \in HevcLevelTexts, tail \in HevcTails}
\* strings of no grammar, near misses of the prefixes, short strings
OtherCodecStrings ==
    {<<"a", "v", "c", "1", ":", "4", "2", "E", "0", "1", "E">>,
     <<"a", "v", "c", "3", ".", "4", "2", "E", "0", "1">>,
     <<>>, <<"v">>, <<"v", "p">>, <<"v", "p", "8">>, <<"v", "p", "8", ".">>,
     <<"v", "p", "8", "0">>, <<"V", "P", "8">>, <<" ", "v", "p", "8">>,
     <<"v", "p", "9">>, <<"v", "p", "0", "9">>, <<"v", "p", "0", "9", ".">>,
     <<"v", "p", "0", "8", ".", "0", "0", ".", "1", "0", ".", "0", "8">>,
     <<"a", "v", "0", "1">>, <<"a", "v", "0", "1", ".">>,
     <<"a", "v", "0", "2", ".", "0", ".", "0", "4", "M", ".", "0", "8">>,
     <<"A", "V", "0", "1", ".", "0", ".", "0", "4", "M", ".", "0", "8">>,
     <<"a", "v", "c", "1">>, <<"a", "v", "c", "1", ".">>,
     <<"a", "v", "c", "2", ".", "0", "0", "0", "0", "0", "0">>,
     <<"a", "v", "c", "1", ".", "4", "2", "E", "0", "1", "E">>,
     <<"a", "v", "c", "3", ".", "4", "2", "E", "0", "1", "E">>,
     <<"a", "v", "c", "1", ".", "4", "d", "4", "0", "1", "f">>,
     <<"h", "v", "c", "1">>, <<"h", "v", "c", "1", ".">>,
     <<"h", "e", "v", "1", ".">>,
     <<"h", "e", "v", "1", ".", "1", ".", "6", ".", "L", "9", "3", ".", "B", "0">>,
     <<"h", "v", "c", "1", ".", "1", ".", "6", ".", "L", "9", "3", ".", "B", "0">>,
     <<"a", "v", "0", "1", ".", "0", ".", "0", "4", "M", ".", "0", "8">>,
     <<"a", "v", "0", "1", ".", "0", ".", "0", "4", "M", ".", "1", "0", ".", "0", ".", "1", "1", "2", ".", "0", "9", ".", "1", "6", ".", "0", "9", ".", "0">>,
     <<"v", "p", "0", "9", ".", "0", "0", ".", "1", "0", ".", "0", "8">>,
     <<"v", "p", "0", "9", ".", "0", "2", ".", "1", "0", ".", "1", "0", ".", "0", "1", ".", "0", "9", ".", "1", "6", ".", "0", "9", ".", "0", "1">>,
     <<"m", "p", "4", "a", ".", "4", "0", ".", "2">>, <<"o", "p", "u", "s">>,
     <<"h", "2", "6", "4">>}
CodecStrings ==
    AvcCodecStrings \cup Av1CodecStrings \cup Vp9CodecStrings
        \cup HevcCodecStrings \cup OtherCodecStrings

CodecInit ==
    /\ \/ pc = "parse_codec_string" /\ data \in CodecStrings
       \/ pc = "parse_av1_codec_string"
          /\ data \in Av1CodecStrings \cup OtherCodecStrings
       \/ pc = "parse_avc_codec_string"
          /\ data \in AvcCodecStrings \cup OtherCodecStrings
       \/ pc = "parse_hevc_codec_string"
          /\ data \in HevcCodecStrings \cup OtherCodecStrings
       \/ pc = "parse_vp8_codec_string" /\ data \in OtherCodecStrings
       \/ pc = "parse_vp9_codec_string"
          /\ data \in Vp9CodecStrings \cup OtherCodecStrings
    /\ ReaderIdle
    /\ OthersIdle

SpecCodec == CodecInit /\ [][CodecNext]_vars

\* ---- C18: parse_codec_string dispatches on the prefix ----

CodecStringDone == pc \in {"codec_string_returned", "codec_string_thrown"}

\* the sub-parser the prefix of str names, "none" when it names none
SubParserOf(str) ==
    IF str = Str_vp8 THEN "VP8"
    ELSE IF Prefix(str, 5) = Str_av01_dot THEN "AV1"
    ELSE IF Prefix(str, 5) \in {Str_avc1_dot, Str_avc3_dot} THEN "AVC"
    ELSE IF Prefix(str, 5) \in {Str_hvc1_dot, Str_hev1_dot} THEN "HEVC"
    ELSE IF Prefix(str, 5) = Str_vp09_dot THEN "VP9"
    ELSE "none"

\* what the named sub-parser gives for str
SubParserOutcome(name, str) ==
    CASE name = "VP8" -> parse_vp8_codec_string(str)
      [] name = "AV1" -> parse_av1_codec_string(str)
      [] name = "AVC" -> parse_avc_codec_string(str)
      [] name = "HEVC" -> parse_hevc_codec_string(str)
      [] name = "VP9" -> parse_vp9_codec_string(str)

\* C18: parse_codec_string picks the sub-parser from the prefix alone
\* ("av01." AV1, "avc1."/"avc3." AVC, "hvc1."/"hev1." HEVC, "vp09." VP9,
\* exactly "vp8" VP8) and its outcome is that sub-parser's outcome, value
\* or exception; a string of no known prefix throws invalid_argument, and
\* a call that throws returns no value
C18_DispatchByPrefix ==
    CodecStringDone =>
        /\ SubParserOf(data) # "none" =>
               out = SubParserOutcome(SubParserOf(data), data)
        /\ SubParserOf(data) = "none" => out = Failed("invalid_argument")
        /\ (pc = "codec_string_thrown") = (out.st # "ok")
        /\ out.st # "ok" => out.v = <<>>
        /\ out.st = "ok" => out.v.kind = SubParserOf(data)

\* "hev1.1.6.L93.B0" is handed to the HEVC parser and returned from it
C18_Witness ==
    /\ pc = "codec_string_returned"
    /\ data = <<"h", "e", "v", "1", ".", "1", ".", "6", ".", "L", "9", "3", ".", "B", "0">>
    /\ out.v.kind = "HEVC"
    /\ out.v.general_level_idc = 93

\* "avc2.000000" names no sub-parser and throws
C18_WitnessUnknownPrefix ==
    /\ pc = "codec_string_thrown"
    /\ data = <<"a", "v", "c", "2", ".", "0", "0", "0", "0", "0", "0">>
    /\ out = Failed("invalid_argument")

\* a prefix is recognised and the sub-parser it names throws
C18_WitnessSubParserThrows ==
    /\ pc = "codec_string_thrown"
    /\ SubParserOf(data) = "AV1"
    /\ out.st = "invalid_argument"

\* ---- C19: parse_avc_codec_string ----

AvcCodecStringDone ==
    pc \in {"avc_codec_string_returned", "avc_codec_string_thrown"}

HexDigitChars ==
    {"0", "1", "2", "3", "4", "5", "6", "7", "8", "9",
     "a", "b", "c", "d", "e", "f", "A", "B", "C", "D", "E", "F"}

\* the value of one hexadecimal digit
HexDigitValue(c) ==
    CASE c = "0" -> 0
      [] c = "1" -> 1
      [] c = "2" -> 2
      [] c = "3" -> 3
      [] c = "4" -> 4
      [] c = "5" -> 5
      [] c = "6" -> 6
      [] c = "7" -> 7
      [] c = "8" -> 8
      [] c = "9" -> 9
      [] c = "a" -> 10
      [] c = "b" -> 11
      [] c = "c" -> 12
      [] c = "d" -> 13
      [] c = "e" -> 14
      [] c = "f" -> 15
      [] c = "A" -> 10
      [] c = "B" -> 11
      [] c = "C" -> 12
      [] c = "D" -> 13
      [] c = "E" -> 14
      [] c = "F" -> 15

\* the byte two hexadecimal digits spell
HexByte(str, i) == (16 * HexDigitValue(str[i])) + HexDigitValue(str[i + 1])

\* "avc1" or "avc3", a dot, and exactly six hexadecimal digits
WellFormedAvc(str) ==
    /\ Len(str) = 11
    /\ SubSeq(str, 1, 4) \in {Str_avc1, Str_avc3}
    /\ str[5] = "."
    /\ \A i \in 6..11 : str[i] \in HexDigitChars

\* the claim as the spec states it: the call succeeds only for the prefix, a
\* dot and exactly six hexadecimal digits, and gives the three bytes they
\* spell; any other length, or a character that is no hexadecimal digit
\* among the six, throws
C19_AsStated ==
    AvcCodecStringDone =>
        /\ (pc = "avc_codec_string_returned") = WellFormedAvc(data)
        /\ pc = "avc_codec_string_returned" =>
               /\ out.v.profile_idc = HexByte(data, 6)
               /\ out.v.constraint_set_flags = HexByte(data, 8)
               /\ out.v.level_idc = HexByte(data, 10)

\* two characters std::stoi(_, nullptr, 16) converts: a hexadecimal digit
\* with anything after it, or a space or a sign before a hexadecimal digit
StartsHex(str, i) ==
    \/ str[i] \in HexDigitChars
    \/ str[i] \in Whitespace \cup {"+", "-"} /\ str[i + 1] \in HexDigitChars

\* C19: what parse_avc_codec_string does. A well-formed string ("avc1" or
\* "avc3", a dot, six hexadecimal digits) returns the three bytes the digits
\* spell, and a string shorter than 11 characters, with another prefix or
\* without the dot throws invalid_argument. But the call returns exactly
\* when the string has at least 11 characters, the prefix, the dot, and
\* three pairs that each start a hexadecimal number: characters after the
\* eleventh are ignored and so is what follows the first digit of a pair
C19_ReturnsWhenPairsStartHex ==
    AvcCodecStringDone =>
        /\ (pc = "avc_codec_string_returned") =
               (/\ Len(data) >= 11
                /\ SubSeq(data, 1, 4) \in {Str_avc1, Str_avc3}
                /\ data[5] = "."
                /\ \A i \in {6, 8, 10} : StartsHex(data, i))
        /\ (pc = "avc_codec_string_thrown") = (out = Failed("invalid_argument"))
        /\ WellFormedAvc(data) =>
               /\ pc = "avc_codec_string_returned"
               /\ out.v.prefix = SubSeq(data, 1, 4)
               /\ out.v.profile_idc = HexByte(data, 6)
               /\ out.v.constraint_set_flags = HexByte(data, 8)
               /\ out.v.level_idc = HexByte(data, 10)

\* "avc1.4GE01E" has a character that is no hexadecimal digit among the six
\* and is returned with profile_idc 4
C19_NonHexAccepted ==
    /\ pc = "avc_codec_string_returned"
    /\ data = <<"a", "v", "c", "1", ".", "4", "G", "E", "0", "1", "E">>
    /\ out.v.profile_idc = 4
    /\ out.v.constraint_set_flags = 224
    /\ out.v.level_idc = 30

\* a string of 13 characters is returned
C19_LongerAccepted ==
    /\ pc = "avc_codec_string_returned"
    /\ Len(data) = 13
    /\ \A i \in 6..11 : data[i] \in HexDigitChars

\* "avc1.42E01E" gives 0x42, 0xE0, 0x1E
C19_WitnessWellFormed ==
    /\ pc = "avc_codec_string_returned"
    /\ data = <<"a", "v", "c", "1", ".", "4", "2", "E", "0", "1", "E">>
    /\ out.v.profile_idc = 66
    /\ out.v.constraint_set_flags = 224
    /\ out.v.level_idc = 30

\* ---- C20: the numeric sub-fields of AV1 and VP9 codec strings ----

DecimalDigitChars == {"0", "1", "2", "3", "4", "5", "6", "7", "8", "9"}

\* a segment that spells a decimal value: digits, or a minus sign and digits
IsNumeral(seg) ==
    /\ Len(seg) >= 1
    /\ \/ \A i \in 1..Len(seg) : seg[i] \in DecimalDigitChars
       \/ /\ Len(seg) >= 2
          /\ seg[1] = "-"
          /\ \A i \in 2..Len(seg) : seg[i] \in DecimalDigitChars

RECURSIVE Magnitude(_, _)
\* the value of the first n characters of a run of digits; a run of more
\* than 9 digits counts as 10^9, which is beyond every range of interest
Magnitude(digits, n) ==
    IF Len(digits) > 9 THEN 1000000000
    ELSE IF n = 0 THEN 0
    ELSE (10 * Magnitude(digits, n - 1)) + HexDigitValue(digits[n])

\* the value a numeral spells
NumeralValue(seg) ==
    IF seg[1] = "-" THEN 0 - Magnitude(Tail(seg), Len(seg) - 1)
    ELSE Magnitude(seg, Len(seg))

\* the segment spells no value outside the range
SpellsWithin(seg, range) == IsNumeral(seg) => NumeralValue(seg) \in range

\* the segment spells a value that fits a byte and is outside the range
SpellsByteOutside(seg, range) ==
    IsNumeral(seg) /\ NumeralValue(seg) \in (0..255) \ range

BitDepths == {8, 10, 12}
Av1Profiles == 0..2
Vp9Profiles == 0..3

\* what a returned call may have been given, as the spec states it: four
\* segments or more, and no profile or bit depth segment that spells a
\* value out of range
StatedOfReturned(parts, profiles) ==
    /\ Len(parts) >= 4
    /\ SpellsWithin(parts[2], profiles)
    /\ SpellsWithin(parts[4], BitDepths)

\* the claim as the spec states it: parse_av1_codec_string and
\* parse_vp9_codec_string throw whenever the profile segment spells a value
\* outside 0..2 (AV1) or 0..3 (VP9), the bit depth segment spells a value
\* other than 8, 10 or 12, values of 256 or more and negative values
\* included, the AV1 tier is neither 'M' nor 'H', or there are fewer than 4
\* segments
C20_AsStated ==
    /\ pc = "av1_codec_string_returned" =>
           /\ StatedOfReturned(split_string(data, "."), Av1Profiles)
           /\ split_string(data, ".")[3][3] \in {"M", "H"}
    /\ pc = "vp9_codec_string_returned" =>
           StatedOfReturned(split_string(data, "."), Vp9Profiles)

\* what holds of a returned call for one numeric segment: the field is the
\* spelled value modulo 256
NarrowedField(seg, field) ==
    IsNumeral(seg) /\ Len(seg) <= 9 => field = NumeralValue(seg) % 256

\* what a call given these segments does
NarrowedRanges(has_returned, v, parts, profiles) ==
    /\ Len(parts) < 4 => ~has_returned
    /\ Len(parts) >= 4 =>
           /\ SpellsByteOutside(parts[2], profiles) => ~has_returned
           /\ SpellsByteOutside(parts[4], BitDepths) => ~has_returned
    /\ has_returned =>
           /\ v.profile \in profiles
           /\ v.bit_depth \in BitDepths
           /\ NarrowedField(parts[2], v.profile)
           /\ NarrowedField(parts[4], v.bit_depth)

Av1CodecStringDone ==
    pc \in {"av1_codec_string_returned", "av1_codec_string_thrown"}
Vp9CodecStringDone ==
    pc \in {"vp9_codec_string_returned", "vp9_codec_string_thrown"}

\* C20: what the two parsers do. Fewer than 4 segments, an AV1 tier that is
\* neither 'M' nor 'H', and a profile or bit depth segment spelling a value
\* of 0..255 outside its range throw. The range tests read the value after
\* its conversion to uint8_t, so a returned call has its profile in range
\* and its bit depth in {8, 10, 12} as stored, each the spelled value
\* modulo 256: a segment spelling 256 or more, or a negative value, passes
\* when the remainder is in range
C20_RangeOfNarrowedValue ==
    /\ Av1CodecStringDone =>
           /\ NarrowedRanges(pc = "av1_codec_string_returned", out.v,
                             split_string(data, "."), Av1Profiles)
           /\ pc = "av1_codec_string_returned" =>
                  /\ out.v.tier = split_string(data, ".")[3][3]
                  /\ out.v.tier \in {"M", "H"}
           /\ (pc = "av1_codec_string_thrown") = (out.st # "ok")
    /\ Vp9CodecStringDone =>
           /\ NarrowedRanges(pc = "vp9_codec_string_returned", out.v,
                             split_string(data, "."), Vp9Profiles)
           /\ (pc = "vp9_codec_string_thrown") = (out.st # "ok")

\* "av01.256.04M.08" is returned with profile 0
C20_ProfileWrapped ==
    /\ pc = "av1_codec_string_returned"
    /\ data = <<"a", "v", "0", "1", ".", "2", "5", "6", ".", "0", "4", "M", ".", "0", "8">>
    /\ out.v.profile = 0
    /\ out.v.bit_depth = 8

\* "vp09.-254.10.08" is returned with profile 2
C20_NegativeAccepted ==
    /\ pc = "vp9_codec_string_returned"
    /\ data = <<"v", "p", "0", "9", ".", "-", "2", "5", "4", ".", "1", "0", ".", "0", "8">>
    /\ out.v.profile = 2

\* "av01.0.04M.264" is returned with bit depth 8
C20_DepthWrapped ==
    /\ pc = "av1_codec_string_returned"
    /\ data = <<"a", "v", "0", "1", ".", "0", ".", "0", "4", "M", ".", "2", "6", "4">>
    /\ out.v.bit_depth = 8

\* the cases where the claim is right: profile 3, bit depth 9, tier 'L' and
\* three segments throw invalid_argument
C20_WitnessThrown ==
    /\ pc = "av1_codec_string_thrown"
    /\ data \in {<<"a", "v", "0", "1", ".", "3", ".", "0", "4", "M", ".", "0", "8">>,
                 <<"a", "v", "0", "1", ".", "0", ".", "0", "4", "M", ".", "9">>,
                 <<"a", "v", "0", "1", ".", "0", ".", "0", "4", "L", ".", "0", "8">>,
                 <<"a", "v", "0", "1", ".", "0", ".", "0", "4", "M">>}
    /\ out = Failed("invalid_argument")

-----------------------------------------------------------------------------
(* parse_hevc_profile_tier_level as an operation on the reader it is given *)

\* the call parse_hevc_sps makes: the reader stands after the 24 bits of the
\* NAL header, sps_video_parameter_set_id, sps_max_sub_layers_minus1 and
\* sps_temporal_id_nesting_flag; max_sub_layers_minus1 and sps are in locals
do_parse_hevc_profile_tier_level ==
    /\ pc = "parse_hevc_profile_tier_level"
    /\ \E s \in {parse_hevc_profile_tier_level(
                    data, Fields([p |-> Ok(U32Zero, cur)], locals))} :
           /\ byte_position' = s.p.r.byte_position
           /\ bit_position' = s.p.r.bit_position
           /\ ret' = [op |-> "parse_hevc_profile_tier_level", n |-> 0,
                      st |-> s.p.st, val |-> U32Zero, sval |-> 0, pre |-> cur]
           /\ locals' = [k \in DOMAIN locals |-> s[k]]
           /\ pc' = IF s.p.st = "ok" THEN "ptl_returned" ELSE "ptl_thrown"
    /\ UNCHANGED <<data, nal_units, idx, offset, info, out>>
    /\ UNCHANGED objects

\* the 12 bytes of the general profile, tier and level fields
PtlGeneralBytes ==
    {<<0, 0, 0, 0, 0, 0, 0, 0, 0, 0, 0, 0>>,
     <<255, 255, 255, 255, 255, 255, 255, 255, 255, 255, 255, 255>>,
     <<96, 0, 0, 0, 144, 0, 0, 0, 0, 0, 0, 93>>}

\* bytes that hold the sub-layer presence flags and what follows them
PtlFlagBytes == {0, 255, 170, 85, 192, 3, 128, 1}

\* the third byte of an SPS RBSP: vps_id 0, max_sub_layers_minus1,
\* sps_temporal_id_nesting_flag 1
PtlThirdByte(max_sub_layers_minus1) == (2 * max_sub_layers_minus1) + 1

MaxSubLayersMinus1 == 7

PtlWholeRbsps ==
    {<<66, 1, PtlThirdByte(n)>> \o g \o <<f1, f2>> \o tail :
        n \in 0..MaxSubLayersMinus1, g \in PtlGeneralBytes,
        f1 \in PtlFlagBytes, f2 \in PtlFlagBytes, tail \in {<<>>, <<128>>}}

\* RBSPs that end inside the profile_tier_level structure or right after it
PtlCutRbsps ==
    {SubSeq(<<66, 1, PtlThirdByte(n), 96, 0, 0, 0, 144, 0, 0, 0, 0, 0, 0, 93,
              255, 255>>, 1, len) :
        n \in 0..MaxSubLayersMinus1, len \in 3..17}

PtlInit ==
    /\ pc = "parse_hevc_profile_tier_level"
    /\ data \in PtlWholeRbsps \cup PtlCutRbsps
    /\ byte_position = 3
    /\ bit_position = 0
    /\ ret = NoRet
    /\ locals = Fields([max_sub_layers_minus1 |-> (data[3] \div 2) % 8],
                       Fields(HEVCSpsInfo, HevcSpsLocals))
    /\ nal_units = <<>>
    /\ idx = 0
    /\ offset = 0
    /\ info = <<>>
    /\ out = <<>>
    /\ ObjectsIdle

SpecPtl == PtlInit /\ [][do_parse_hevc_profile_tier_level]_vars

\* ---- C22: the bits profile_tier_level consumes ----

\* bits between the cursor the call was given and the cursor it left
PtlConsumed ==
    ((8 * byte_position) + bit_position)
        - ((8 * ret.pre.byte_position) + ret.pre.bit_position)

\* sps_max_sub_layers_minus1 as the bits 20..22 of the RBSP spell it
PtlSubLayers == (data[3] \div 2) % 8

\* 96 bits of general fields, then for n > 0 sub-layers 2 presence flags
\* each and 2 alignment bits for each of the 8 - n others
PtlBits(n) == IF n = 0 THEN 96 ELSE (96 + (2 * n)) + (2 * (8 - n))

\* C22: the profile_tier_level step consumes 96 bits when
\* max_sub_layers_minus1 is 0 and 112 bits when it is in 1..7, whatever the
\* values of the sub-layer presence flags: no sub-layer profile or level
\* field is consumed. The step returns exactly when that many bits remain
\* and stores the general tier, profile and level it read
C22_PtlConsumesFixedBits ==
    pc \in {"ptl_returned", "ptl_thrown"} =>
        /\ (pc = "ptl_returned") = ((8 * Len(data)) - 24 >= PtlBits(PtlSubLayers))
        /\ pc = "ptl_returned" =>
               /\ PtlConsumed = PtlBits(PtlSubLayers)
               /\ PtlConsumed \in {96, 112}
               /\ locals.general_tier_flag = (data[4] \div 32) % 2
               /\ locals.general_profile_idc = data[4] % 32
               /\ locals.general_level_idc = data[15]

\* three sub-layers with every presence flag set: 112 bits consumed
C22_Witness ==
    /\ pc = "ptl_returned"
    /\ PtlSubLayers = 3
    /\ data[16] = 255
    /\ PtlConsumed = 112
    /\ byte_position = 17

\* no sub-layer: 96 bits consumed
C22_WitnessNoSubLayer ==
    /\ pc = "ptl_returned"
    /\ PtlSubLayers = 0
    /\ PtlConsumed = 96

-----------------------------------------------------------------------------
(* The bytes of the input each step of an aggregator reads *)

\* data[i] where the index is inside the buffer, 0 where it is not
Peek(d, i) == IF i >= 0 /\ i < Len(d) THEN d[i + 1] ELSE 0

\* the indices o .. o + l - 1 of a copy of l bytes from offset o
CopyReads(o, l) == o..(o + l - 1)

\* one probe of the start-code loop at i, entered under i + 2 < size:
\* data[i] and data[i + 1], data[i + 2] after two zero bytes, and then
\* data[i + 3] under i + 3 < size after a third zero byte
probe_reads(d, i) ==
    {i, i + 1}
        \cup (IF Peek(d, i) = 0 /\ Peek(d, i + 1) = 0 THEN {i + 2} ELSE {})
        \cup (IF /\ Peek(d, i) = 0 /\ Peek(d, i + 1) = 0
                 /\ Peek(d, i + 2) # 1
                 /\ i + 3 < Len(d)
                 /\ Peek(d, i + 2) = 0
              THEN {i + 3} ELSE {})

\* the reads of find_annexb_nal_units: nothing for size < 4, else probes at
\* positions that satisfy the loop conditions i + 2 < size and j + 2 < size
scan_reads(d) ==
    IF Len(d) < MinAnnexBSize THEN {}
    ELSE UNION {probe_reads(d, i) : i \in {k \in 0..Len(d) : k + 2 < Len(d)}}

\* an entry of a description read without the test of its declared length
\* against the size of the record
entry_reads_unchecked_length(d, o, zero_length_breaks) ==
    IF o + 2 > Len(d) THEN {}
    ELSE {o, o + 1}
             \cup (IF zero_length_breaks /\ (Peek(d, o) * 256) + Peek(d, o + 1) = 0
                   THEN {}
                   ELSE CopyReads(o + 2, (Peek(d, o) * 256) + Peek(d, o + 1)))

\* one entry of a description at offset o: the 2-byte length under
\* offset + 2 <= size, then the copy of the entry under
\* offset + length <= size (and length # 0 in an avcC record)
entry_reads(d, o, zero_length_breaks) ==
    IF o + 2 > Len(d) THEN {}
    ELSE {o, o + 1}
             \cup (IF \/ (o + 2) + (Peek(d, o) * 256) + Peek(d, o + 1) > Len(d)
                      \/ /\ zero_length_breaks
                         /\ (Peek(d, o) * 256) + Peek(d, o + 1) = 0
                   THEN {}
                   ELSE CopyReads(o + 2, (Peek(d, o) * 256) + Peek(d, o + 1)))

\* the span a loop over nal_units is at
span_at(units, i) == units[i + 1]

\* the header byte(s) of a span and the copy handed to a decoder; spans
\* shorter than min_length are skipped
span_reads(d, u, min_length, decoded_types, type) ==
    IF u.length < min_length THEN {}
    ELSE (u.offset)..(u.offset + min_length - 1)
             \cup (IF type \in decoded_types
                   THEN CopyReads(u.offset, u.length) ELSE {})

\* the indices of data the step that runs next reads
step_reads ==
    CASE pc \in {"parse_avc_annexb", "parse_hevc_annexb"} ->
             IF data = <<>> THEN {} ELSE scan_reads(data)
      [] pc = "avc_annexb_loop" /\ idx < Len(nal_units) ->
             span_reads(data, span_at(nal_units, idx), 1, {AVC_SPS, AVC_PPS},
                        Peek(data, span_at(nal_units, idx).offset) % 32)
      [] pc = "hevc_annexb_loop" /\ idx < Len(nal_units) ->
             span_reads(data, span_at(nal_units, idx), 2,
                        {HEVC_VPS, HEVC_SPS, HEVC_PPS},
                        (Peek(data, span_at(nal_units, idx).offset) \div 2) % 64)
      [] pc = "parse_avc_description" ->
             IF Len(data) < MinAvcCSize THEN {} ELSE {4, 5}
      [] pc \in {"avc_description_sps_loop", "avc_description_pps_loop"}
            /\ idx < locals.num ->
             entry_reads(data, offset, TRUE)
      [] pc = "avc_description_pps_count" ->
             IF offset >= Len(data) THEN {} ELSE {offset}
      [] pc = "parse_hevc_description" ->
             IF Len(data) < MinHvcCSize THEN {} ELSE {21, 22}
      [] pc = "hevc_description_arrays" /\ idx < locals.num ->
             IF offset + 3 > Len(data) THEN {}
             ELSE {offset, offset + 1, offset + 2}
      [] pc = "hevc_description_nalus" /\ locals.j < locals.num_nalus ->
             entry_reads(data, offset, FALSE)
      [] OTHER -> {}

\* ---- C23: every read lies inside the input ----

\* C23: in every state of parse_avc_annexb, parse_hevc_annexb (with the scan
\* by find_annexb_nal_units they start with), parse_avc_description and
\* parse_hevc_description, the step that runs next reads only indices below
\* the length of the input: start-code probes, count bytes, 2-byte length
\* prefixes, NAL header bytes and copied entries, also when a declared count
\* or length exceeds what the record holds; every span the scan returns and
\* the offset of a description parser stay inside the input as well
C23_ReadsInsideBuffer ==
    /\ step_reads \subseteq 0..(Len(data) - 1)
    /\ \A i \in 1..Len(nal_units) :
           nal_units[i].offset + nal_units[i].length <= Len(data)
    /\ offset <= Len(data)

\* an entry declares more bytes than the record holds: only its length
\* prefix is read
C23_Witness ==
    /\ pc = "avc_description_sps_loop"
    /\ idx < locals.num
    /\ offset + 2 <= Len(data)
    /\ (offset + 2) + U16At(data, offset) > Len(data)
    /\ step_reads = {offset, offset + 1}

\* the count of arrays exceeds the arrays the record holds
C23_WitnessCount ==
    /\ pc = "hevc_description_arrays"
    /\ idx < locals.num
    /\ offset + 3 > Len(data)
    /\ step_reads = {}

\* a whole entry is copied, up to the last byte of the record
C23_WitnessCopy ==
    /\ pc = "hevc_description_nalus"
    /\ locals.j < locals.num_nalus
    /\ Len(data) - 1 \in step_reads

\* a scan reads the last byte of the input
C23_WitnessScan ==
    /\ pc = "parse_avc_annexb"
    /\ Len(data) >= MinAnnexBSize
    /\ Len(data) - 1 \in step_reads

-----------------------------------------------------------------------------
(* VideoDecoder (video_decoder.h, video_decoder.cpp) as built for Linux    *)
(* without the NVIDIA toolkit: the caller's thread runs configure, decode, *)
(* flush, reset and close; the worker thread runs worker_loop.  self holds *)
(* the members, threads the position of the two threads, events what the   *)
(* decoder has done since the last reset: the frames given to              *)
(* handle_output and the calls of output_callback_ and error_callback_.    *)

\* chunks a caller may submit between two resets
MaxChunks == 2
\* frames a decoder library may return for one chunk
MaxFramesPerChunk == 2

\* a chunk is known by what the decoder library makes of it: got is the
\* value decode_vpx / decode_dav1d return (a picture was returned), frames
\* the number of pictures that pass the format tests and reach handle_output
Chunks ==
    {[got |-> FALSE, frames |-> 0]}
        \cup {[got |-> TRUE, frames |-> k] : k \in 0..MaxFramesPerChunk}

Str_av01_0_04M_08 ==
    <<"a", "v", "0", "1", ".", "0", ".", "0", "4", "M", ".", "0", "8">>
Str_avc1_42001f == <<"a", "v", "c", "1", ".", "4", "2", "0", "0", "1", "f">>
Str_theora == <<"t", "h", "e", "o", "r", "a">>

\* the configurations given to configure(): codec and
\* hardware_acceleration_engine, and whether the backend library opens
DecoderConfig(codec, engine, opens) ==
    [codec |-> codec, hardware_acceleration_engine |-> engine,
     opens |-> opens]

DecoderConfigs ==
    {DecoderConfig(Str_av01_0_04M_08, "none", TRUE),
     DecoderConfig(Str_av01_0_04M_08, "none", FALSE),
     DecoderConfig(Str_vp8, "none", TRUE),
     DecoderConfig(Str_avc1_42001f, "INTEL_VPL", TRUE),
     DecoderConfig(Str_avc1_42001f, "none", TRUE),
     DecoderConfig(Str_theora, "none", TRUE)}

\* VideoCodec VideoDecoder::string_to_codec(const std::string& codec)
string_to_codec(codec) ==
    IF Len(codec) >= 5 /\ Substr(codec, 0, 5) = Str_av01_dot THEN "AV1"
    ELSE IF Len(codec) >= 5
            /\ Substr(codec, 0, 5) \in {Str_avc1_dot, Str_avc3_dot}
    THEN "H264"
    ELSE IF Len(codec) >= 5
            /\ Substr(codec, 0, 5) \in {Str_hvc1_dot, Str_hev1_dot}
    THEN "H265"
    ELSE IF codec = Str_vp8 THEN "VP8"
    ELSE IF Len(codec) >= 5 /\ Substr(codec, 0, 5) = Str_vp09_dot THEN "VP9"
    ELSE "runtime_error"

\* bool VideoDecoder::uses_intel_vpl() const, where string_to_codec does
\* not throw
uses_intel_vpl(s) ==
    /\ string_to_codec(s.config_.codec) \in {"H264", "H265"}
    /\ s.config_.hardware_acceleration_engine = "INTEL_VPL"

\* the object the constructor leaves
NewVideoDecoder ==
    [class |-> "VideoDecoder",
     state_ |-> "UNCONFIGURED",
     config_ |-> [codec |-> <<>>, hardware_acceleration_engine |-> "none"],
     decoder_context_ |-> FALSE,
     vpx_decoder_ |-> FALSE,
     vpl_session_ |-> FALSE,
     decode_queue_ |-> <<>>,
     pending_tasks_ |-> 0,
     next_sequence_number_ |-> 0,
     worker_thread_ |-> [joinable |-> FALSE],
     should_stop_ |-> FALSE,
     current_sequence_ |-> 0,
     output_buffer_ |-> <<>>,
     next_output_sequence_ |-> 0]

\* the caller's thread between two calls; last is how its last call ended:
\* "returned" or "thrown"
Idle(last) == [pc |-> "idle", arg |-> <<>>, last |-> last]

\* the caller's thread inside a call that waits
Waiting(at, arg) == [pc |-> at, arg |-> arg, last |-> "none"]

\* the worker thread at a place of worker_loop: task is the DecodeTask it
\* took, decoded what decode_internal makes of it, produced the frames
\* already given to handle_output
Worker(at) ==
    [pc |-> at, task |-> <<>>, decoded |-> <<>>, produced |-> 0,
     frames_to_output |-> <<>>]

\* void VideoDecoder::start_worker(): the new thread starts worker_loop
start_worker(s) ==
    [s EXCEPT !.should_stop_ = FALSE, !.worker_thread_ = [joinable |-> TRUE]]

\* worker_thread_.join() has returned
joined(s) == [s EXCEPT !.worker_thread_ = [joinable |-> FALSE]]

\* void VideoDecoder::init_decoder(); st is "ok" or the exception
init_decoder(s, opens) ==
    IF uses_intel_vpl(s)
    THEN IF s.vpl_session_ THEN [st |-> "ok", s |-> s]
         ELSE IF opens THEN [st |-> "ok", s |-> [s EXCEPT !.vpl_session_ = TRUE]]
         ELSE [st |-> "runtime_error", s |-> s]
    ELSE CASE string_to_codec(s.config_.codec) = "AV1" ->
                  IF opens
                  THEN [st |-> "ok", s |-> [s EXCEPT !.decoder_context_ = TRUE]]
                  ELSE [st |-> "runtime_error", s |-> s]
           [] string_to_codec(s.config_.codec) \in {"H264", "H265"} ->
                  [st |-> "runtime_error", s |-> s]
           [] string_to_codec(s.config_.codec) \in {"VP8", "VP9"} ->
                  IF s.vpx_decoder_ THEN [st |-> "ok", s |-> s]
                  ELSE IF opens
                  THEN [st |-> "ok", s |-> [s EXCEPT !.vpx_decoder_ = TRUE]]
                  ELSE [st |-> "runtime_error", s |-> s]
           [] OTHER -> [st |-> "runtime_error", s |-> s]

\* void VideoDecoder::cleanup_decoder(), entered with the worker joined
cleanup_decoder(s) ==
    IF s.vpl_session_ THEN [s EXCEPT !.vpl_session_ = FALSE]
    ELSE IF ~s.decoder_context_ THEN [s EXCEPT !.vpx_decoder_ = FALSE]
    ELSE IF string_to_codec(s.config_.codec) \in {"VP8", "VP9"}
    THEN [s EXCEPT !.vpx_decoder_ = FALSE, !.decoder_context_ = FALSE]
    ELSE [s EXCEPT !.decoder_context_ = FALSE]

\* the variables of the parsers, idle while a codec object runs
parsers == <<data, byte_position, bit_position, ret, pc, nal_units, idx,
             offset, locals, info, out>>

ParsersIdle ==
    /\ data = <<>>
    /\ pc = "none"
    /\ ReaderIdle
    /\ nal_units = <<>>
    /\ idx = 0
    /\ offset = 0
    /\ locals = NoLocals
    /\ info = <<>>
    /\ out = <<>>

\* std::map: m[k] = v, m.erase(k), and the smallest key
MapPut(m, k, v) == [x \in DOMAIN m \cup {k} |-> IF x = k THEN v ELSE m[x]]
MapErase(m, k) == [x \in DOMAIN m \ {k} |-> m[x]]
MapFirst(m) == CHOOSE k \in DOMAIN m : \A x \in DOMAIN m : k <= x

\* the values of a std::map in the order of its keys
RECURSIVE MapValues(_)
MapValues(m) ==
    IF DOMAIN m = {} THEN <<>>
    ELSE <<m[MapFirst(m)]>> \o MapValues(MapErase(m, MapFirst(m)))

\* what the callbacks have been given since the last reset: the sequence
\* numbers of the frames given to output_callback_, in the order of the
\* calls, and the number of calls of error_callback_
NoEvents == [output_callback_ |-> <<>>, error_callback_ |-> 0]

\* the sequence numbers of a list of frames
RECURSIVE Sequences(_)
Sequences(frames) ==
    IF frames = <<>> THEN <<>>
    ELSE <<Head(frames).sequence>> \o Sequences(Tail(frames))

\* output_callback_ is called with each frame of a list
OutputCallbacks(frames) ==
    [events EXCEPT !.output_callback_ = @ \o Sequences(frames)]

\* error_callback_ is called n times
ErrorCallbacks(n) == [events EXCEPT !.error_callback_ = @ + n]

\* handle_output's loop under output_mutex_: the frames ready in order
RECURSIVE collect_in_order(_, _)
collect_in_order(s, frames_to_output) ==
    IF s.next_output_sequence_ \in DOMAIN s.output_buffer_
    THEN collect_in_order(
             [s EXCEPT !.output_buffer_ =
                           MapErase(@, s.next_output_sequence_),
                       !.next_output_sequence_ = @ + 1],
             Append(frames_to_output,
                    s.output_buffer_[s.next_output_sequence_]))
    ELSE [s |-> s, frames_to_output |-> frames_to_output]

\* void VideoDecoder::handle_output(uint64_t sequence, frame), the part
\* under output_mutex_
handle_output(s, sequence, frame) ==
    collect_in_order(
        [s EXCEPT !.output_buffer_ = MapPut(@, sequence, frame)], <<>>)

\* bool VideoDecoder::decode_internal(const EncodedVideoChunk& chunk): st is
\* "ok" or "terminate" (an exception leaves the worker thread), success
\* the value returned, frames the pictures given to handle_output, errors
\* the calls of error_callback_ made inside
decode_internal(s, chunk) ==
    LET Result(st, success, frames, errors) ==
            [st |-> st, success |-> success, frames |-> frames,
             errors |-> errors]
    IN  IF string_to_codec(s.config_.codec) = "runtime_error"
        THEN Result("terminate", FALSE, 0, 0)
        ELSE IF uses_intel_vpl(s)
        THEN IF s.vpl_session_ THEN Result("ok", TRUE, chunk.frames, 0)
             ELSE Result("terminate", FALSE, 0, 0)
        ELSE CASE string_to_codec(s.config_.codec) = "AV1" ->
                      IF s.decoder_context_
                      THEN Result("ok", chunk.got, chunk.frames, 0)
                      ELSE Result("ok", FALSE, 0, 0)
               [] string_to_codec(s.config_.codec) \in {"H264", "H265"} ->
                      Result("ok", FALSE, 0, 1)
               [] OTHER ->
                      IF s.vpx_decoder_
                      THEN Result("ok", chunk.got, chunk.frames, 0)
                      ELSE Result("ok", FALSE, 0, 0)

\* configure() from "既存のデコーダーをクリーンアップ" on, the worker joined
\* if it had to be; started tells that start_worker was called
configure_body(s, config) ==
    LET cleaned == IF s.decoder_context_ THEN cleanup_decoder(s) ELSE s
        saved == [cleaned EXCEPT !.config_ =
                     [codec |-> config.codec,
                      hardware_acceleration_engine |->
                          config.hardware_acceleration_engine]]
        init == init_decoder(saved, config.opens)
    IN  IF parse_codec_string(config.codec).st /= "ok"
        THEN [s |-> saved, last |-> "thrown",
              started |-> FALSE]
        ELSE IF init.st /= "ok"
        THEN [s |-> init.s, last |-> "thrown",
              started |-> FALSE]
        ELSE [s |-> [(IF init.s.worker_thread_.joinable THEN init.s
                      ELSE start_worker(init.s))
                        EXCEPT !.state_ = "CONFIGURED"],
              last |-> "returned",
              started |-> ~init.s.worker_thread_.joinable]

\* reset() after stop_worker(); opens: whether the backend opens again
reset_body(s, opens) ==
    LET cleared == [s EXCEPT !.decode_queue_ = <<>>,
                             !.pending_tasks_ = 0,
                             !.output_buffer_ = <<>>,
                             !.next_output_sequence_ = 0,
                             !.next_sequence_number_ = 0]
        init == init_decoder(cleanup_decoder(cleared), opens)
    IN  IF ~cleared.decoder_context_
        THEN [s |-> start_worker(cleared), last |-> "returned",
              started |-> TRUE]
        ELSE IF init.st /= "ok"
        THEN [s |-> init.s, last |-> "thrown",
              started |-> FALSE]
        ELSE [s |-> start_worker(init.s), last |-> "returned",
              started |-> TRUE]

\* close() after the worker is stopped
close_body(s) == [cleanup_decoder(s) EXCEPT !.state_ = "CLOSED"]

\* the caller's thread may enter a call of the decoder
CallerMayCall ==
    /\ self # <<>>
    /\ self.class = "VideoDecoder"
    /\ threads.caller.pc = "idle"
    /\ threads.worker.pc # "terminate"

\* the threads after a call that ended with `last`
AfterCall(last, started) ==
    [threads EXCEPT !.caller = Idle(last),
                    !.worker = IF started THEN Worker("wait") ELSE @]

\* void VideoDecoder::configure(nb::dict config_dict), up to the join of
\* the worker when there is one to stop
VideoDecoder_configure ==
    \E config \in DecoderConfigs :
        /\ CallerMayCall
        /\ IF self.state_ = "CLOSED"
           THEN /\ threads' = AfterCall("thrown", FALSE)
                /\ self' = self
           ELSE IF self.decoder_context_ /\ self.worker_thread_.joinable
           THEN /\ self' = [self EXCEPT !.should_stop_ = TRUE]
                /\ threads' = [threads EXCEPT
                                  !.caller = Waiting("configure_join", config)]
           ELSE /\ self' = configure_body(self, config).s
                /\ threads' = AfterCall(configure_body(self, config).last,
                                        configure_body(self, config).started)
        /\ UNCHANGED <<events, readers, parsers>>

\* configure() once worker_thread_.join() has returned
VideoDecoder_configure_joined ==
    /\ threads.caller.pc = "configure_join"
    /\ threads.worker.pc = "exited"
    /\ self' = configure_body(joined(self), threads.caller.arg).s
    /\ threads' =
           [caller |-> Idle(configure_body(joined(self),
                                           threads.caller.arg).last),
            worker |-> IF configure_body(joined(self),
                                         threads.caller.arg).started
                       THEN Worker("wait") ELSE Worker("none")]
    /\ UNCHANGED <<events, readers, parsers>>

\* void VideoDecoder::decode(const EncodedVideoChunk& chunk)
VideoDecoder_decode ==
    \E chunk \in Chunks :
        /\ CallerMayCall
        /\ IF self.state_ # "CONFIGURED"
           THEN /\ threads' = AfterCall("thrown", FALSE)
                /\ self' = self
           ELSE /\ self.next_sequence_number_ < MaxChunks
                /\ self' = [self EXCEPT
                       !.decode_queue_ =
                           Append(@, [chunk |-> chunk,
                                      sequence_number |->
                                          self.next_sequence_number_]),
                       !.next_sequence_number_ = @ + 1,
                       !.pending_tasks_ = @ + 1]
                /\ threads' = AfterCall("returned", FALSE)
        /\ UNCHANGED <<events, readers, parsers>>

\* the predicate flush() gives to queue_cv_.wait, with pending_tasks_ left
\* out
flush_wait_predicate_queue_only(s) == s.decode_queue_ = <<>>

\* the predicate flush() gives to queue_cv_.wait
flush_wait_predicate(s) ==
    /\ s.decode_queue_ = <<>>
    /\ s.pending_tasks_ = 0

\* void VideoDecoder::flush(), up to queue_cv_.wait
VideoDecoder_flush ==
    /\ CallerMayCall
    /\ threads' =
           IF self.state_ # "CONFIGURED"
           THEN AfterCall("returned", FALSE)
           ELSE IF string_to_codec(self.config_.codec) = "runtime_error"
           THEN AfterCall("thrown", FALSE)
           ELSE [threads EXCEPT !.caller = Waiting("flush_wait", <<>>)]
    /\ UNCHANGED <<self, events, readers, parsers>>

\* flush() from the return of queue_cv_.wait on: with Intel VPL it hands
\* out what output_buffer_ holds (the VPL session itself holds no frame)
VideoDecoder_flush_woken ==
    /\ threads.caller.pc = "flush_wait"
    /\ threads.worker.pc # "terminate"
    /\ flush_wait_predicate(self)
    /\ threads' = AfterCall("returned", FALSE)
    /\ IF uses_intel_vpl(self)
       THEN /\ self' = [self EXCEPT !.output_buffer_ = <<>>]
            /\ events' = OutputCallbacks(MapValues(self.output_buffer_))
       ELSE UNCHANGED <<self, events>>
    /\ UNCHANGED <<readers, parsers>>

\* void VideoDecoder::reset(), up to the join of stop_worker()
VideoDecoder_reset ==
    \E opens \in BOOLEAN :
        /\ CallerMayCall
        /\ IF self.state_ = "CLOSED"
           THEN /\ threads' = AfterCall("thrown", FALSE)
                /\ UNCHANGED <<self, events>>
           ELSE IF self.worker_thread_.joinable
           THEN /\ self' = [self EXCEPT !.should_stop_ = TRUE]
                /\ threads' = [threads EXCEPT
                                  !.caller = Waiting("reset_join", opens)]
                /\ UNCHANGED events
           ELSE /\ self' = reset_body(self, opens).s
                /\ threads' = AfterCall(reset_body(self, opens).last,
                                        reset_body(self, opens).started)
                /\ events' = NoEvents
        /\ UNCHANGED <<readers, parsers>>

\* reset() once worker_thread_.join() has returned
VideoDecoder_reset_joined ==
    /\ threads.caller.pc = "reset_join"
    /\ threads.worker.pc = "exited"
    /\ self' = reset_body(joined(self), threads.caller.arg).s
    /\ threads' =
           [caller |-> Idle(reset_body(joined(self), threads.caller.arg).last),
            worker |-> IF reset_body(joined(self), threads.caller.arg).started
                       THEN Worker("wait") ELSE Worker("none")]
    /\ events' = NoEvents
    /\ UNCHANGED <<readers, parsers>>

\* void VideoDecoder::close(), up to the join of stop_worker()
VideoDecoder_close ==
    /\ CallerMayCall
    /\ IF self.state_ = "CLOSED"
       THEN /\ threads' = AfterCall("returned", FALSE)
            /\ self' = self
       ELSE IF self.worker_thread_.joinable
       THEN /\ self' = [self EXCEPT !.should_stop_ = TRUE]
            /\ threads' = [threads EXCEPT
                              !.caller = Waiting("close_join", <<>>)]
       ELSE /\ self' = close_body(self)
            /\ threads' = AfterCall("returned", FALSE)
    /\ UNCHANGED <<events, readers, parsers>>

\* close() once worker_thread_.join() has returned
VideoDecoder_close_joined ==
    /\ threads.caller.pc = "close_join"
    /\ threads.worker.pc = "exited"
    /\ self' = close_body(joined(self))
    /\ threads' = [caller |-> Idle("returned"),
                   worker |-> Worker("none")]
    /\ UNCHANGED <<events, readers, parsers>>

\* worker_loop: queue_cv_.wait returns with a task to take
worker_loop_take ==
    /\ self.class = "VideoDecoder"
    /\ threads.worker.pc = "wait"
    /\ self.decode_queue_ # <<>>
    /\ self' = [self EXCEPT !.decode_queue_ = Tail(@)]
    /\ threads' = [threads EXCEPT
                      !.worker = [Worker("process_decode_task") EXCEPT
                                     !.task = Head(self.decode_queue_)]]
    /\ UNCHANGED <<events, readers, parsers>>

\* worker_loop: should_stop_ is set and the queue is empty
worker_loop_break ==
    /\ self.class = "VideoDecoder"
    /\ threads.worker.pc = "wait"
    /\ self.should_stop_
    /\ self.decode_queue_ = <<>>
    /\ threads' = [threads EXCEPT !.worker = Worker("exited")]
    /\ UNCHANGED <<self, events, readers, parsers>>

\* process_decode_task: current_sequence_ is set and the decoder library
\* decodes the chunk
process_decode_task ==
    /\ threads.worker.pc = "process_decode_task"
    /\ self' = [self EXCEPT
                   !.current_sequence_ = threads.worker.task.sequence_number]
    /\ threads' = [threads EXCEPT
           !.worker.decoded = decode_internal(self, threads.worker.task.chunk),
           !.worker.pc =
               IF decode_internal(self, threads.worker.task.chunk).st
                      = "terminate"
               THEN "terminate"
               ELSE IF decode_internal(self, threads.worker.task.chunk).frames
                           > 0
               THEN "handle_output" ELSE "task_done"]
    /\ events' =
           ErrorCallbacks(decode_internal(self, threads.worker.task.chunk).errors)
    /\ UNCHANGED <<readers, parsers>>

\* the decoder library returned one more picture: handle_output is called
\* with current_sequence_ and runs its part under output_mutex_
worker_handle_output ==
    /\ threads.worker.pc = "handle_output"
    /\ self' = handle_output(self, self.current_sequence_,
                             [sequence |-> self.current_sequence_,
                              k |-> threads.worker.produced]).s
    /\ threads' = [threads EXCEPT
           !.worker.pc = "output_callback_",
           !.worker.produced = @ + 1,
           !.worker.frames_to_output =
               handle_output(self, self.current_sequence_,
                             [sequence |-> self.current_sequence_,
                              k |-> threads.worker.produced]).frames_to_output]
    /\ UNCHANGED <<events, readers, parsers>>

\* handle_output after output_mutex_ is released: the callbacks
worker_output_callbacks ==
    /\ threads.worker.pc = "output_callback_"
    /\ events' = OutputCallbacks(threads.worker.frames_to_output)
    /\ threads' = [threads EXCEPT
           !.worker.frames_to_output = <<>>,
           !.worker.pc = IF threads.worker.produced
                               < threads.worker.decoded.frames
                         THEN "handle_output" ELSE "task_done"]
    /\ UNCHANGED <<self, readers, parsers>>

\* the end of process_decode_task (the error callback of a failed decode)
\* and worker_loop's pending_tasks_--
worker_task_done ==
    /\ threads.worker.pc = "task_done"
    /\ events' =
           ErrorCallbacks(IF threads.worker.decoded.success THEN 0 ELSE 1)
    /\ self' = [self EXCEPT !.pending_tasks_ = @ - 1]
    /\ threads' = [threads EXCEPT !.worker = Worker("wait")]
    /\ UNCHANGED <<readers, parsers>>

VideoDecoderCalls ==
    \/ VideoDecoder_configure
    \/ VideoDecoder_configure_joined
    \/ VideoDecoder_decode
    \/ VideoDecoder_flush
    \/ VideoDecoder_flush_woken
    \/ VideoDecoder_reset
    \/ VideoDecoder_reset_joined
    \/ VideoDecoder_close
    \/ VideoDecoder_close_joined

VideoDecoderWorker ==
    \/ worker_loop_take
    \/ worker_loop_break
    \/ process_decode_task
    \/ worker_handle_output
    \/ worker_output_callbacks
    \/ worker_task_done

VideoDecoderNext == VideoDecoderCalls \/ VideoDecoderWorker

VideoDecoderInit ==
    /\ self = NewVideoDecoder
    /\ threads = [caller |-> Idle("none"), worker |-> Worker("none")]
    /\ events = NoEvents
    /\ readers = <<>>
    /\ ParsersIdle

SpecVideoDecoder == VideoDecoderInit /\ [][VideoDecoderNext]_vars

\* ---- a configured decoder that is given chunks and flushed ----

\* the decoders configure() leaves in state CONFIGURED with the worker
\* running: a first configure() that succeeded, and one followed by a
\* configure() that failed without stopping the worker
ConfiguredDecoders ==
    {configure_body(NewVideoDecoder, config).s :
        config \in {DecoderConfig(Str_av01_0_04M_08, "none", TRUE),
                    DecoderConfig(Str_vp8, "none", TRUE),
                    DecoderConfig(Str_avc1_42001f, "INTEL_VPL", TRUE)}}
        \cup {configure_body(
                  configure_body(NewVideoDecoder,
                                 DecoderConfig(Str_vp8, "none", TRUE)).s,
                  DecoderConfig(Str_avc1_42001f, "none", TRUE)).s}

ConfiguredInit ==
    /\ self \in ConfiguredDecoders
    /\ threads = [caller |-> Idle("returned"), worker |-> Worker("wait")]
    /\ events = NoEvents
    /\ readers = <<>>
    /\ ParsersIdle

\* the caller submits chunks and flushes; it makes no call that stops the
\* worker
ConfiguredNext ==
    \/ VideoDecoder_decode
    \/ VideoDecoder_flush
    \/ VideoDecoder_flush_woken
    \/ worker_loop_take
    \/ process_decode_task
    \/ worker_handle_output
    \/ worker_output_callbacks
    \/ worker_task_done

\* The worker thread is scheduled fairly, and a waiting flush() is woken
\* when its predicate holds (worker_loop calls queue_cv_.notify_all() after
\* each task).
FairWorker ==
    /\ WF_vars(VideoDecoderWorker)
    /\ WF_vars(VideoDecoder_flush_woken)

FairConfiguredDecoder == ConfiguredInit /\ [][ConfiguredNext]_vars /\ FairWorker

\* every call of the decoder in every order, under the same fairness
FairVideoDecoder == SpecVideoDecoder /\ FairWorker

\* ---- C26: flush() waits for the worker to finish what was submitted ----

\* the worker thread runs worker_loop
WorkerRunning == threads.worker.pc \notin {"none", "exited", "terminate"}

\* flush() returns from its wait in this step
FlushReturns ==
    /\ threads.caller.pc = "flush_wait"
    /\ threads'.caller.pc = "idle"

\* C26: a flush() called in state CONFIGURED returns only when
\* decode_queue_ is empty and pending_tasks_ is 0, the worker then being
\* between two tasks with every submitted chunk taken and processed; and
\* while the worker thread runs and is scheduled fairly, a waiting flush()
\* eventually returns.
C26_FlushWaitsForWorker ==
    /\ [][FlushReturns =>
              /\ self.decode_queue_ = <<>>
              /\ self.pending_tasks_ = 0
              /\ threads.worker.pc \in {"wait", "none", "exited"}]_vars
    /\ (threads.caller.pc = "flush_wait" /\ WorkerRunning)
           ~> (threads.caller.pc = "idle" \/ ~WorkerRunning)

\* flush() waits while the worker is inside a task
C26_Witness ==
    /\ threads.caller.pc = "flush_wait"
    /\ threads.worker.pc = "output_callback_"
    /\ self.decode_queue_ # <<>>

\* flush() has returned after both chunks were processed
C26_WitnessReturned ==
    /\ threads.caller.last = "returned"
    /\ events.output_callback_ # <<>>
    /\ self.next_sequence_number_ = MaxChunks
    /\ self.pending_tasks_ = 0

\* ---- C24: frames given to handle_output and frames delivered ----

\* C24 as stated, for a configured decoder that is flushed: when flush()
\* returns, every chunk submitted before it has been processed, so a frame
\* that is to be delivered at all has been delivered by then and
\* output_buffer_ holds none.
C24_AsStated == [][FlushReturns => self'.output_buffer_ = <<>>]_vars

\* chunk 0 gave no frame: the frame of chunk 1 is held, the decoder has
\* nothing left to do, and next_output_sequence_ still waits for 0
C24_Witness ==
    /\ threads.caller.pc = "idle"
    /\ threads.worker.pc = "wait"
    /\ self.decode_queue_ = <<>>
    /\ self.pending_tasks_ = 0
    /\ self.next_output_sequence_ = 0
    /\ DOMAIN self.output_buffer_ = {1}
    /\ events.output_callback_ = <<>>

\* the second frame of a chunk is held under a sequence number that
\* next_output_sequence_ has passed
C24_WitnessSecondFrame ==
    /\ self.pending_tasks_ = 0
    /\ self.next_output_sequence_ = 1
    /\ DOMAIN self.output_buffer_ = {0}

\* ---- C25: state CONFIGURED and the worker thread ----

\* C25 as stated: between two calls, a decoder in state CONFIGURED has its
\* worker thread running.
C25_AsStated ==
    (/\ threads.caller.pc = "idle"
     /\ threads.worker.pc # "terminate"
     /\ self.state_ = "CONFIGURED") => WorkerRunning

\* a configure() with an unknown codec has thrown after it stopped the
\* worker of the AV1 decoder: state CONFIGURED, no worker, and decode()
\* accepts a chunk that nothing processes
C25_Witness ==
    /\ threads.caller.pc = "idle"
    /\ threads.worker.pc = "none"
    /\ self.state_ = "CONFIGURED"
    /\ self.config_.codec = Str_theora
    /\ self.pending_tasks_ = 1
    /\ Len(self.decode_queue_) = 1

\* ---- C29: reset() and the chunks still queued ----

\* C29 as stated: while reset() stops the worker, the worker takes no chunk
\* from decode_queue_ any more, and when reset() has returned the queue and
\* the output buffer are empty and the counters are 0.
C29_AsStated ==
    [][/\ threads.caller.pc = "reset_join"
           => self'.decode_queue_ = self.decode_queue_
       /\ (threads.caller.pc = "reset_join" /\ threads'.caller.pc = "idle")
           => /\ self'.decode_queue_ = <<>>
              /\ self'.output_buffer_ = <<>>
              /\ self'.pending_tasks_ = 0
              /\ self'.next_sequence_number_ = 0
              /\ self'.next_output_sequence_ = 0]_vars

\* C29, the part that holds: when reset() returns, decode_queue_ and
\* output_buffer_ are empty and the three counters are 0
C29_ResetLeavesCountersZero ==
    [][(threads.caller.pc = "reset_join" /\ threads'.caller.pc = "idle")
           => /\ self'.decode_queue_ = <<>>
              /\ self'.output_buffer_ = <<>>
              /\ self'.pending_tasks_ = 0
              /\ self'.next_sequence_number_ = 0
              /\ self'.next_output_sequence_ = 0]_vars

\* reset() waits in join() with a chunk still queued: the worker, at its
\* wait with should_stop_ set, does not leave the loop but takes the chunk
C29_Witness ==
    /\ threads.caller.pc = "reset_join"
    /\ self.should_stop_
    /\ threads.worker.pc = "wait"
    /\ self.decode_queue_ # <<>>

\* the frame of a chunk taken after reset() was called is about to be
\* given to the output callback
C29_WitnessCallback ==
    /\ threads.caller.pc = "reset_join"
    /\ threads.worker.pc = "output_callback_"
    /\ threads.worker.task.sequence_number = 1
    /\ threads.worker.frames_to_output # <<>>
    /\ events.output_callback_ = <<0>>

\* ---- C30: the order of the output callbacks ----

\* C30 as stated: since the last reset the output callback was called with
\* strictly increasing sequence numbers.
C30_AsStated ==
    \A i \in 1..(Len(events.output_callback_) - 1) :
        events.output_callback_[i] < events.output_callback_[i + 1]

\* the output callback was called twice for sequence number 0
C30_Witness == events.output_callback_ = <<0, 0>>

\* the output callback was given sequence number 1 and never 0
C30_WitnessSkipped ==
    /\ events.output_callback_ = <<1>>
    /\ self.next_output_sequence_ = 0

\* ======================================================================
\* AudioEncoder (audio_encoder.cpp, audio_encoder_opus.cpp): the caller's
\* thread and the worker thread of one encoder
\* ======================================================================

\* encode() calls between two resets, and the packet sequence number up to
\* which the caller goes on encoding
MaxAudioData == 2
MaxChunkSequence == 3

\* 20 ms of samples at each sample rate
FRAME_SIZE_48KHZ == 960
FRAME_SIZE_24KHZ == 480
FRAME_SIZE_16KHZ == 320
FRAME_SIZE_12KHZ == 240
FRAME_SIZE_8KHZ == 160

\* the configurations given to configure(): Opus at 48 kHz, Opus at a
\* sample rate init_opus_encoder refuses, and a codec configure() refuses
EncoderConfigs ==
    {[codec |-> "opus", sample_rate |-> 48000],
     [codec |-> "opus", sample_rate |-> 44100],
     [codec |-> "mp3", sample_rate |-> 48000]}

\* AudioData given to encode(): number_of_frames() of none, one sample,
\* one full Opus frame and one sample more
AudioDatas ==
    {[number_of_frames |-> n] :
        n \in {0, 1, FRAME_SIZE_48KHZ, FRAME_SIZE_48KHZ + 1}}

\* the encoder after AudioEncoder(output, error) with an output callback
NewAudioEncoder ==
    [class |-> "AudioEncoder",
     state_ |-> "UNCONFIGURED",
     config_ |-> [codec |-> "", sample_rate |-> 0],
     opus_encoder_ |-> FALSE,
     has_output_callback_ |-> TRUE,
     encode_queue_ |-> <<>>,
     pending_tasks_ |-> 0,
     next_sequence_number_ |-> 0,
     worker_thread_ |-> [joinable |-> FALSE],
     should_stop_ |-> FALSE,
     current_sequence_ |-> 0,
     output_buffer_ |-> <<>>,
     next_chunk_sequence_ |-> 0,
     next_output_sequence_ |-> 0]

\* void AudioEncoder::init_opus_encoder(); st is "ok" or the exception
init_opus_encoder(s) ==
    IF s.config_.sample_rate \notin {8000, 12000, 16000, 24000, 48000}
    THEN [st |-> "runtime_error", s |-> s]
    ELSE [st |-> "ok", s |-> [s EXCEPT !.opus_encoder_ = TRUE]]

\* encode_frame_opus: the frame size of config_.sample_rate
opus_frame_size(s) ==
    CASE s.config_.sample_rate = 24000 -> FRAME_SIZE_24KHZ
      [] s.config_.sample_rate = 16000 -> FRAME_SIZE_16KHZ
      [] s.config_.sample_rate = 12000 -> FRAME_SIZE_12KHZ
      [] s.config_.sample_rate = 8000 -> FRAME_SIZE_8KHZ
      [] OTHER -> FRAME_SIZE_48KHZ

\* encode_frame_opus: the passes of its loop, one packet each
\* (samples_processed grows by min(frame_size, what is left))
RECURSIVE opus_packets(_, _, _)
opus_packets(samples_processed, total_samples, frame_size) ==
    IF samples_processed < total_samples
    THEN 1 + opus_packets(
                 samples_processed
                     + (IF frame_size < total_samples - samples_processed
                        THEN frame_size
                        ELSE total_samples - samples_processed),
                 total_samples, frame_size)
    ELSE 0

\* void AudioEncoder::process_encode_task(const EncodeTask& task): the
\* packets the encoder of config_.codec makes of the task; st is
\* "terminate" when encode_frame_opus throws in the worker thread
encode_frame(s, task) ==
    IF s.config_.codec = "opus"
    THEN IF ~s.opus_encoder_ THEN [st |-> "terminate", packets |-> 0]
         ELSE [st |-> "ok",
               packets |-> opus_packets(0, task.data.number_of_frames,
                                        opus_frame_size(s))]
    ELSE [st |-> "ok", packets |-> 0]

\* void AudioEncoder::handle_encoded_frame(data, size, timestamp) as far as
\* output_mutex_ is held: the packet takes next_chunk_sequence_ and goes
\* through handle_output
handle_encoded_frame(s) ==
    IF s.has_output_callback_
    THEN handle_output(
             [s EXCEPT !.next_chunk_sequence_ = @ + 1],
             s.next_chunk_sequence_,
             [sequence |-> s.next_chunk_sequence_, k |-> 0])
    ELSE [s |-> s, frames_to_output |-> <<>>]

\* void AudioEncoder::close(), entered with the worker joined
AudioEncoder_close_body(s) ==
    IF s.state_ = "CLOSED" THEN s
    ELSE [s EXCEPT !.opus_encoder_ = FALSE, !.state_ = "CLOSED"]

\* void AudioEncoder::configure(nb::dict config_dict) after the CLOSED test
AudioEncoder_configure_body(s, config) ==
    LET saved == [s EXCEPT !.config_ = config]
        init == init_opus_encoder(saved)
    IN  IF config.codec # "opus"
        THEN [s |-> saved, last |-> "thrown", started |-> FALSE]
        ELSE IF init.st # "ok"
        THEN [s |-> init.s, last |-> "thrown", started |-> FALSE]
        ELSE [s |-> [(IF init.s.worker_thread_.joinable THEN init.s
                      ELSE start_worker(init.s))
                        EXCEPT !.state_ = "CONFIGURED"],
              last |-> "returned",
              started |-> ~init.s.worker_thread_.joinable]

\* void AudioEncoder::reset() after stop_worker(): next_chunk_sequence_ is
\* not among what it clears
AudioEncoder_reset_body(s) ==
    start_worker(
        [AudioEncoder_close_body(
             [s EXCEPT !.encode_queue_ = <<>>,
                       !.pending_tasks_ = 0,
                       !.output_buffer_ = <<>>,
                       !.next_output_sequence_ = 0,
                       !.next_sequence_number_ = 0])
            EXCEPT !.state_ = "UNCONFIGURED"])

\* the caller's thread may enter a call of the encoder
EncoderCallerMayCall ==
    /\ self # <<>>
    /\ self.class = "AudioEncoder"
    /\ threads.caller.pc = "idle"
    /\ threads.worker.pc # "terminate"

\* void AudioEncoder::configure(nb::dict config_dict)
AudioEncoder_configure ==
    \E config \in EncoderConfigs :
        /\ EncoderCallerMayCall
        /\ IF self.state_ = "CLOSED"
           THEN /\ threads' = AfterCall("thrown", FALSE)
                /\ self' = self
           ELSE /\ self' = AudioEncoder_configure_body(self, config).s
                /\ threads' =
                       AfterCall(AudioEncoder_configure_body(self, config).last,
                                 AudioEncoder_configure_body(self,
                                                             config).started)
        /\ UNCHANGED <<events, readers, parsers>>

\* void AudioEncoder::encode(const AudioData& data)
AudioEncoder_encode ==
    \E audio \in AudioDatas :
        /\ EncoderCallerMayCall
        /\ IF self.state_ # "CONFIGURED"
           THEN /\ threads' = AfterCall("thrown", FALSE)
                /\ self' = self
           ELSE /\ self.next_sequence_number_ < MaxAudioData
                /\ self.next_chunk_sequence_ < MaxChunkSequence
                /\ self' = [self EXCEPT
                       !.encode_queue_ =
                           Append(@, [data |-> audio,
                                      sequence_number |->
                                          self.next_sequence_number_]),
                       !.next_sequence_number_ = @ + 1,
                       !.pending_tasks_ = @ + 1]
                /\ threads' = AfterCall("returned", FALSE)
        /\ UNCHANGED <<events, readers, parsers>>

\* void AudioEncoder::flush(), up to queue_cv_.wait
AudioEncoder_flush ==
    /\ EncoderCallerMayCall
    /\ threads' = [threads EXCEPT !.caller = Waiting("encoder_flush_wait", <<>>)]
    /\ UNCHANGED <<self, events, readers, parsers>>

\* flush() from the return of queue_cv_.wait on: nothing more for Opus
AudioEncoder_flush_woken ==
    /\ threads.caller.pc = "encoder_flush_wait"
    /\ threads.worker.pc # "terminate"
    /\ self.encode_queue_ = <<>>
    /\ self.pending_tasks_ = 0
    /\ threads' = AfterCall("returned", FALSE)
    /\ UNCHANGED <<self, events, readers, parsers>>

\* void AudioEncoder::reset(), up to the join of stop_worker(); there is no
\* test of state_
AudioEncoder_reset ==
    /\ EncoderCallerMayCall
    /\ IF self.worker_thread_.joinable
       THEN /\ self' = [self EXCEPT !.should_stop_ = TRUE]
            /\ threads' = [threads EXCEPT
                              !.caller = Waiting("encoder_reset_join", <<>>)]
            /\ UNCHANGED events
       ELSE /\ self' = AudioEncoder_reset_body(self)
            /\ threads' = AfterCall("returned", TRUE)
            /\ events' = NoEvents
    /\ UNCHANGED <<readers, parsers>>

\* reset() once worker_thread_.join() has returned
AudioEncoder_reset_joined ==
    /\ threads.caller.pc = "encoder_reset_join"
    /\ threads.worker.pc = "exited"
    /\ self' = AudioEncoder_reset_body(joined(self))
    /\ threads' = [caller |-> Idle("returned"), worker |-> Worker("wait")]
    /\ events' = NoEvents
    /\ UNCHANGED <<readers, parsers>>

\* void AudioEncoder::close(), up to the join of stop_worker()
AudioEncoder_close ==
    /\ EncoderCallerMayCall
    /\ IF self.state_ # "CLOSED" /\ self.worker_thread_.joinable
       THEN /\ self' = [self EXCEPT !.should_stop_ = TRUE]
            /\ threads' = [threads EXCEPT
                              !.caller = Waiting("encoder_close_join", <<>>)]
       ELSE /\ self' = AudioEncoder_close_body(self)
            /\ threads' = AfterCall("returned", FALSE)
    /\ UNCHANGED <<events, readers, parsers>>

\* close() once worker_thread_.join() has returned
AudioEncoder_close_joined ==
    /\ threads.caller.pc = "encoder_close_join"
    /\ threads.worker.pc = "exited"
    /\ self' = AudioEncoder_close_body(joined(self))
    /\ threads' = [caller |-> Idle("returned"), worker |-> Worker("none")]
    /\ UNCHANGED <<events, readers, parsers>>

\* AudioEncoder::worker_loop: queue_cv_.wait returns with a task to take
encoder_worker_loop_take ==
    /\ self.class = "AudioEncoder"
    /\ threads.worker.pc = "wait"
    /\ self.encode_queue_ # <<>>
    /\ self' = [self EXCEPT !.encode_queue_ = Tail(@)]
    /\ threads' = [threads EXCEPT
                      !.worker = [Worker("process_encode_task") EXCEPT
                                     !.task = Head(self.encode_queue_)]]
    /\ UNCHANGED <<events, readers, parsers>>

\* AudioEncoder::worker_loop: should_stop_ is set and the queue is empty
encoder_worker_loop_break ==
    /\ self.class = "AudioEncoder"
    /\ threads.worker.pc = "wait"
    /\ self.should_stop_
    /\ self.encode_queue_ = <<>>
    /\ threads' = [threads EXCEPT !.worker = Worker("exited")]
    /\ UNCHANGED <<self, events, readers, parsers>>

\* process_encode_task: current_sequence_ is set and the encoder of
\* config_.codec is entered
process_encode_task ==
    /\ threads.worker.pc = "process_encode_task"
    /\ self' = [self EXCEPT
                   !.current_sequence_ = threads.worker.task.sequence_number]
    /\ threads' = [threads EXCEPT
           !.worker.decoded = encode_frame(self, threads.worker.task),
           !.worker.pc =
               IF encode_frame(self, threads.worker.task).st = "terminate"
               THEN "terminate"
               ELSE IF encode_frame(self, threads.worker.task).packets > 0
               THEN "handle_encoded_frame" ELSE "encode_task_done"]
    /\ UNCHANGED <<events, readers, parsers>>

\* encode_frame_opus made one more packet: handle_encoded_frame gives it
\* its sequence number and handle_output buffers it and calls the output
\* callback with what is in order
worker_handle_encoded_frame ==
    /\ threads.worker.pc = "handle_encoded_frame"
    /\ self' = handle_encoded_frame(self).s
    /\ events' = OutputCallbacks(handle_encoded_frame(self).frames_to_output)
    /\ threads' = [threads EXCEPT
           !.worker.produced = @ + 1,
           !.worker.pc = IF threads.worker.produced + 1
                               < threads.worker.decoded.packets
                         THEN "handle_encoded_frame" ELSE "encode_task_done"]
    /\ UNCHANGED <<readers, parsers>>

\* AudioEncoder::worker_loop: pending_tasks_-- and notify_all
encoder_worker_task_done ==
    /\ threads.worker.pc = "encode_task_done"
    /\ self' = [self EXCEPT !.pending_tasks_ = @ - 1]
    /\ threads' = [threads EXCEPT !.worker = Worker("wait")]
    /\ UNCHANGED <<events, readers, parsers>>

AudioEncoderNext ==
    \/ AudioEncoder_configure
    \/ AudioEncoder_encode
    \/ AudioEncoder_flush
    \/ AudioEncoder_flush_woken
    \/ AudioEncoder_reset
    \/ AudioEncoder_reset_joined
    \/ AudioEncoder_close
    \/ AudioEncoder_close_joined
    \/ encoder_worker_loop_take
    \/ encoder_worker_loop_break
    \/ process_encode_task
    \/ worker_handle_encoded_frame
    \/ encoder_worker_task_done

AudioEncoderInit ==
    /\ self = NewAudioEncoder
    /\ threads = [caller |-> Idle("none"), worker |-> Worker("none")]
    /\ events = NoEvents
    /\ readers = <<>>
    /\ ParsersIdle

SpecAudioEncoder == AudioEncoderInit /\ [][AudioEncoderNext]_vars

\* ---- C27: the packets encoded after a reset ----

\* the worker gives a packet its sequence number in this step
PacketStep ==
    /\ self.class = "AudioEncoder"
    /\ self'.next_chunk_sequence_ = self.next_chunk_sequence_ + 1

\* C27 as stated: every packet takes the sequence number the output side
\* waits for (next_chunk_sequence_ = next_output_sequence_ when it is
\* numbered), so that handle_output delivers it at once and holds nothing
\* back, also after reset() and configure().
C27_AsStated ==
    [][PacketStep =>
          /\ self.next_chunk_sequence_ = self.next_output_sequence_
          /\ self'.output_buffer_ = <<>>
          /\ events'.output_callback_ =
                 Append(events.output_callback_, self.next_chunk_sequence_)]_vars

\* after a reset() and a configure() an encode() was processed to the end:
\* its packet, numbered 1, is held in output_buffer_ while
\* next_output_sequence_ is 0, the output callback was not called, and the
\* encoder is idle
C27_Witness ==
    /\ self.class = "AudioEncoder"
    /\ self.state_ = "CONFIGURED"
    /\ threads.caller.pc = "idle"
    /\ threads.worker.pc = "wait"
    /\ self.encode_queue_ = <<>>
    /\ self.pending_tasks_ = 0
    /\ self.next_sequence_number_ = 1
    /\ self.next_chunk_sequence_ = 2
    /\ self.next_output_sequence_ = 0
    /\ DOMAIN self.output_buffer_ = {1}
    /\ events.output_callback_ = <<>>

\* ---- C28: CLOSED as a terminal state ----

\* C28 as stated, for AudioEncoder: once state() is CLOSED it stays CLOSED
\* and no worker thread is started.
C28_AsStated ==
    [][(self.class = "AudioEncoder" /\ self.state_ = "CLOSED")
          => /\ self'.state_ = "CLOSED"
             /\ ~self'.worker_thread_.joinable]_vars

\* close() has completed on an encoder that had encoded a packet: state()
\* is CLOSED and there is no worker thread; reset() is the next call
C28_Witness ==
    /\ self.class = "AudioEncoder"
    /\ self.state_ = "CLOSED"
    /\ ~self.worker_thread_.joinable
    /\ threads.worker.pc = "none"
    /\ threads.caller = Idle("returned")
    /\ self.next_chunk_sequence_ = 1
    /\ events.output_callback_ = <<0>>

\* C28 for VideoDecoder, whose reset() and configure() test for CLOSED:
\* once state() is CLOSED it stays CLOSED and no worker thread is started.
C28_VideoDecoderClosedIsTerminal ==
    [][(self.class = "VideoDecoder" /\ self.state_ = "CLOSED")
          => /\ self'.state_ = "CLOSED"
             /\ ~self'.worker_thread_.joinable
             /\ threads'.worker.pc = "none"]_vars


\* ======================================================================
\* Two BitstreamReader instances whose calls are interleaved
\* (bitstream_reader.h): `readers` holds the buffers and, per instance,
\* the members and the call in progress
\* ======================================================================

\* the buffers the two instances are constructed over
InterleavedBuffers == {<<<<90>>, <<23>>>>}

\* the widths given to read_bits and skip_bits
InterleavedWidths == {0, 3, 33}

Instances == {1, 2}

\* no call in progress; op and start are those of the last call, ret what
\* it returned or threw
NoCall ==
    [pc |-> "idle", op |-> "none", n |-> 0, i |-> 0, result |-> U32Zero,
     leading_zeros |-> 0, start |-> Cursor(0, 0), ret |-> <<>>]

\* BitstreamReader(const uint8_t* data, size_t size) over buffer b
NewBitstreamReader(b) ==
    [data_ |-> b, byte_position_ |-> 0, bit_position_ |-> 0, call |-> NoCall]

\* byte_position_ and bit_position_ of instance k
cursor_of(rs, k) ==
    Cursor(rs.inst[k].byte_position_, rs.inst[k].bit_position_)

\* the buffer data_ of instance k points to
buffer_of(rs, k) == rs.buffers[rs.inst[k].data_]

\* byte_position_ and bit_position_ as members shared by all instances
set_cursor_shared(rs, k, r) ==
    [rs EXCEPT !.inst = [j \in DOMAIN rs.inst |->
                            [rs.inst[j] EXCEPT
                                !.byte_position_ = r.byte_position,
                                !.bit_position_ = r.bit_position]]]

\* instance k writes its members byte_position_ and bit_position_
set_cursor(rs, k, r) ==
    [rs EXCEPT !.inst[k].byte_position_ = r.byte_position,
               !.inst[k].bit_position_ = r.bit_position]

\* the call in progress of instance k becomes c
set_call(rs, k, c) == [rs EXCEPT !.inst[k].call = c]

\* the call of instance k returns or throws with outcome o
call_done(rs, k, o) ==
    set_call(set_cursor(rs, k, o.r), k,
             [rs.inst[k].call EXCEPT !.pc = "done", !.ret = o])

\* what the call op(n) gives when it runs alone on buffer d from cursor r
Alone(op, n, d, r) ==
    CASE op = "read_bit" -> read_bit(d, r)
      [] op = "read_bits" -> read_bits(d, r, n)
      [] op = "skip_bits" -> skip_bits(d, r, n)
      [] op = "read_ue" -> read_ue(d, r)
      [] op = "read_se" -> read_se(d, r)
      [] op = "align_to_byte" -> Ok(U32Zero, align_to_byte(r))

\* instance k is entered with a call: read_bit and align_to_byte run to
\* their end, the others reach their loop
reader_enter(k) ==
    \E op \in {"read_bit", "read_bits", "skip_bits", "read_ue", "read_se",
               "align_to_byte"} :
      \E n \in InterleavedWidths :
        /\ readers # <<>>
        /\ readers.inst[k].call.pc \in {"idle", "done"}
        /\ op \in {"read_bits", "skip_bits"} \/ n = 0
        /\ LET c == [NoCall EXCEPT !.op = op, !.n = n,
                                   !.start = cursor_of(readers, k)]
               rs == set_call(readers, k, c)
           IN  readers' =
                 CASE op = "read_bit" ->
                        call_done(rs, k, read_bit(buffer_of(readers, k),
                                                  cursor_of(readers, k)))
                   [] op = "align_to_byte" ->
                        call_done(rs, k,
                                  Ok(U32Zero,
                                     align_to_byte(cursor_of(readers, k))))
                   [] op = "read_bits" ->
                        IF n > MaxBitsPerRead
                        THEN call_done(rs, k,
                                 Throw("InvalidWidth", cursor_of(readers, k)))
                        ELSE set_call(rs, k, [c EXCEPT !.pc = "read_bits"])
                   [] op = "skip_bits" ->
                        set_call(rs, k, [c EXCEPT !.pc = "skip_bits"])
                   [] OTHER ->
                        set_call(rs, k, [c EXCEPT !.pc = "read_ue_zeros"])
        /\ UNCHANGED <<self, threads, events, parsers>>

\* one pass of the loop of read_bits in instance k, or its return; inside
\* read_ue the return goes on with read_ue's (and read_se's) own
reader_read_bits_step(k) ==
    /\ readers # <<>>
    /\ readers.inst[k].call.pc = "read_bits"
    /\ LET c == readers.inst[k].call
           b == read_bits_step(c.result,
                               read_bit(buffer_of(readers, k),
                                        cursor_of(readers, k)))
           v == Ok(c.result, cursor_of(readers, k))
       IN  readers' =
             IF c.i < c.n
             THEN IF b.st # "ok" THEN call_done(readers, k, b)
                  ELSE set_call(set_cursor(readers, k, b.r), k,
                                [c EXCEPT !.i = @ + 1, !.result = b.val])
             ELSE CASE c.op = "read_bits" -> call_done(readers, k, v)
                    [] c.op = "read_ue" ->
                         call_done(readers, k,
                                   read_ue_return(c.leading_zeros, v))
                    [] c.op = "read_se" ->
                         call_done(readers, k,
                             read_se_return(read_ue_return(c.leading_zeros, v)))
    /\ UNCHANGED <<self, threads, events, parsers>>

\* one pass of the loop of skip_bits in instance k, or its return
reader_skip_bits_step(k) ==
    /\ readers # <<>>
    /\ readers.inst[k].call.pc = "skip_bits"
    /\ LET c == readers.inst[k].call
           b == skip_bits_step(read_bit(buffer_of(readers, k),
                                        cursor_of(readers, k)))
       IN  readers' =
             IF c.i < c.n
             THEN IF b.st # "ok" THEN call_done(readers, k, b)
                  ELSE set_call(set_cursor(readers, k, b.r), k,
                                [c EXCEPT !.i = @ + 1])
             ELSE call_done(readers, k, Ok(U32Zero, cursor_of(readers, k)))
    /\ UNCHANGED <<self, threads, events, parsers>>

\* one pass of the while loop of read_ue in instance k; at the one bit
\* read_ue returns 0 or enters read_bits(leading_zeros)
reader_read_ue_step(k) ==
    /\ readers # <<>>
    /\ readers.inst[k].call.pc = "read_ue_zeros"
    /\ LET c == readers.inst[k].call
           z == read_ue_zeros_step(c.leading_zeros,
                                   read_bit(buffer_of(readers, k),
                                            cursor_of(readers, k)))
       IN  readers' =
             CASE z.st = "loop" ->
                    set_call(set_cursor(readers, k, z.r), k,
                             [c EXCEPT !.leading_zeros = z.val[2]])
               [] z.st = "ok" /\ z.val[2] # 0 ->
                    set_call(set_cursor(readers, k, z.r), k,
                             [c EXCEPT !.pc = "read_bits", !.n = z.val[2],
                                       !.i = 0, !.result = U32Zero])
               [] z.st = "ok" /\ z.val[2] = 0 ->
                    call_done(readers, k,
                              IF c.op = "read_se"
                              THEN read_se_return(Ok(U32Zero, z.r))
                              ELSE Ok(U32Zero, z.r))
               [] OTHER -> call_done(readers, k, z)
    /\ UNCHANGED <<self, threads, events, parsers>>

InterleavedNext ==
    \E k \in Instances :
        \/ reader_enter(k)
        \/ reader_read_bits_step(k)
        \/ reader_skip_bits_step(k)
        \/ reader_read_ue_step(k)

\* two instances, over two buffers or both over the first
InterleavedInit ==
    /\ \E bs \in InterleavedBuffers :
         \E second \in {1, 2} :
            readers = [buffers |-> bs,
                       inst |-> <<NewBitstreamReader(1),
                                  NewBitstreamReader(second)>>]
    /\ self = <<>>
    /\ threads = <<>>
    /\ events = <<>>
    /\ ParsersIdle

SpecInterleaved == InterleavedInit /\ [][InterleavedNext]_vars

\* ---- C21: the calls of two instances do not interact ----

\* the call of instance k has returned or thrown what the same call gives
\* alone on the instance's buffer from the cursor it was entered with, and
\* the instance's cursor is where the call alone leaves it
SameAsAlone(k) ==
    LET c == readers.inst[k].call
        alone == Alone(c.op, IF c.op \in {"read_bits", "skip_bits"}
                             THEN c.n ELSE 0,
                       buffer_of(readers, k), c.start)
    IN  c.pc = "done" =>
            /\ c.ret = alone
            /\ cursor_of(readers, k) = alone.r

\* C21: however the steps of the calls of two BitstreamReader instances
\* are interleaved, over two buffers or over the same one, each call
\* returns the result, or throws the exception, and leaves its cursor
\* where the same call does when it runs alone; and no step writes to a
\* buffer.
C21_InstancesDoNotInteract ==
    /\ [](\A k \in Instances : SameAsAlone(k))
    /\ [][readers'.buffers = readers.buffers]_vars

\* both instances read the same buffer; the second has finished a
\* read_ue() that returned 2 from bits 2..4 while the first, entered at bit
\* 0, is inside the loop of read_bits(3) with 2 bits read
C21_Witness ==
    /\ readers.inst[1].data_ = readers.inst[2].data_
    /\ readers.inst[2].call.pc = "done"
    /\ readers.inst[2].call.op = "read_ue"
    /\ readers.inst[2].call.start = Cursor(0, 2)
    /\ readers.inst[2].call.ret = Ok(U32Of(2), Cursor(0, 5))
    /\ readers.inst[1].call.pc = "read_bits"
    /\ readers.inst[1].call.op = "read_bits"
    /\ readers.inst[1].call.start = Cursor(0, 0)
    /\ readers.inst[1].call.i = 2

\* a read_se() on one instance has thrown for want of data while a call of
\* the other instance over another buffer is in progress
C21_WitnessThrown ==
    /\ readers.inst[1].data_ # readers.inst[2].data_
    /\ readers.inst[2].call.pc = "done"
    /\ readers.inst[2].call.op = "read_se"
    /\ readers.inst[2].call.ret.st = "OutOfData"
    /\ readers.inst[1].call.pc = "read_ue_zeros"


====
